---- MODULE Spec2Model ----
(***************************************************************************)
(* A model of src/parser.py: CCStatementParser, the tiered (table, block,  *)
(* global) extraction of five fields from a card statement.                *)
(*                                                                         *)
(* A text (a table cell, a block's text, the raw text) is carried as the   *)
(* sequence of its whitespace-separated words; every regular expression of *)
(* the source is translated to a matcher over that sequence that works on  *)
(* the characters inside a word and treats the gap between two words as    *)
(* the whitespace \s+ matches.  A float is carried as its whole part and  *)
(* its hundredths (78,708.38 is 78708 and 38).                             *)
(***************************************************************************)
EXTENDS Integers, Sequences, FiniteSets, TLC

(* ----------------------------- values --------------------------------- *)

\* Python's None, a str and a float, as one record shape.
Flt(w, c) == [w |-> w, c |-> c]
Null == [kind |-> "null", s |-> "", n |-> Flt(0, 0)]
StrV(s) == [kind |-> "str", s |-> s, n |-> Flt(0, 0)]
NumV(n) == [kind |-> "num", s |-> "", n |-> n]

\* A local binding: With(e, LAMBDA v : body) is body with v bound to the
\* value of e.
With(v, Body(_)) == Body(v)

\* min_val < amt < max_val, the bounds being whole numbers.
Between(min_val, amt, max_val) ==
  /\ amt.w > min_val \/ (amt.w = min_val /\ amt.c > 0)
  /\ amt.w < max_val

(* --------------------------- characters ------------------------------- *)

\* The character of s at position i, "" outside s.
Char(s, i) == IF i >= 1 /\ i <= Len(s) THEN SubSeq(s, i, i) ELSE ""

DigitCh == {"0", "1", "2", "3", "4", "5", "6", "7", "8", "9"}

LowerCh ==
  {"a", "b", "c", "d", "e", "f", "g", "h", "i", "j", "k", "l", "m",
   "n", "o", "p", "q", "r", "s", "t", "u", "v", "w", "x", "y", "z"}

UpperCh ==
  {"A", "B", "C", "D", "E", "F", "G", "H", "I", "J", "K", "L", "M",
   "N", "O", "P", "Q", "R", "S", "T", "U", "V", "W", "X", "Y", "Z"}

\* \w of the re module, on the characters the documents use.
WordCh == DigitCh \cup LowerCh \cup UpperCh \cup {"_"}

LowerOf ==
  [c \in UpperCh |->
     CASE c = "A" -> "a" [] c = "B" -> "b" [] c = "C" -> "c" [] c = "D" -> "d"
       [] c = "E" -> "e" [] c = "F" -> "f" [] c = "G" -> "g" [] c = "H" -> "h"
       [] c = "I" -> "i" [] c = "J" -> "j" [] c = "K" -> "k" [] c = "L" -> "l"
       [] c = "M" -> "m" [] c = "N" -> "n" [] c = "O" -> "o" [] c = "P" -> "p"
       [] c = "Q" -> "q" [] c = "R" -> "r" [] c = "S" -> "s" [] c = "T" -> "t"
       [] c = "U" -> "u" [] c = "V" -> "v" [] c = "W" -> "w" [] c = "X" -> "x"
       [] c = "Y" -> "y" [] c = "Z" -> "z"]

DigitVal ==
  [c \in DigitCh |->
     CASE c = "0" -> 0 [] c = "1" -> 1 [] c = "2" -> 2 [] c = "3" -> 3
       [] c = "4" -> 4 [] c = "5" -> 5 [] c = "6" -> 6 [] c = "7" -> 7
       [] c = "8" -> 8 [] c = "9" -> 9]

\* str.lower() of one word.
RECURSIVE Lower(_)
Lower(s) ==
  IF s = "" THEN ""
  ELSE LET c == Head(s)
       IN (IF c \in UpperCh THEN LowerOf[c] ELSE c) \o Lower(Tail(s))

\* str.lower() of a text.
LowerAll(ws) == [i \in DOMAIN ws |-> Lower(ws[i])]

StartsWith(s, p) == Len(s) >= Len(p) /\ SubSeq(s, 1, Len(p)) = p
EndsWith(s, p) == Len(s) >= Len(p) /\ SubSeq(s, Len(s) - Len(p) + 1, Len(s)) = p
Contains(s, p) ==
  \E i \in 1..(Len(s) - Len(p) + 1) : SubSeq(s, i, i + Len(p) - 1) = p

\* Whether the n characters of s from position i are all digits: \d{n}.
IsDigits(s, i, n) ==
  i + n - 1 <= Len(s) /\ \A j \in i..(i + n - 1) : Char(s, j) \in DigitCh

\* The last position of the longest run of characters of cs that starts at
\* position i of s (i - 1 when there is none): a greedy [cs]*.
RECURSIVE RunEnd(_, _, _)
RunEnd(s, i, cs) ==
  IF i <= Len(s) /\ Char(s, i) \in cs THEN RunEnd(s, i + 1, cs) ELSE i - 1

\* The first position of the longest run of characters of cs that ends at
\* the end of s (Len(s) + 1 when there is none).
RECURSIVE SuffixStart(_, _, _)
SuffixStart(s, i, cs) ==
  IF i >= 1 /\ Char(s, i) \in cs THEN SuffixStart(s, i - 1, cs) ELSE i + 1

\* The words of a text joined by single spaces.
RECURSIVE Join(_)
Join(ws) ==
  IF ws = <<>> THEN ""
  ELSE IF Len(ws) = 1 THEN ws[1]
  ELSE ws[1] \o " " \o Join(Tail(ws))

\* The first position >= i of s where p occurs, 0 when there is none.
RECURSIVE IndexFrom(_, _, _)
IndexFrom(s, p, i) ==
  IF i + Len(p) - 1 > Len(s) THEN 0
  ELSE IF SubSeq(s, i, i + Len(p) - 1) = p THEN i
  ELSE IndexFrom(s, p, i + 1)

\* A position in a text: word i, character k of it.  k = Len(ws[i]) + 1 is
\* the gap after the word; \s* and \s+ step from there to <<i + 1, 1>>.
Hop(ws, i, k) == IF i <= Len(ws) /\ k > Len(ws[i]) THEN <<i + 1, 1>> ELSE <<i, k>>

(* ------------------- pieces of the regular expressions ---------------- *)

\* \d{1,2}/\d{1,2}/\d{4} at position k of word s: the length matched, 0 when
\* it does not match there.
DateLen(s, k) ==
  With({a \in {1, 2} : IsDigits(s, k, a) /\ Char(s, k + a) = "/"}, LAMBDA A :
    IF A = {} THEN 0
    ELSE With(CHOOSE x \in A : TRUE, LAMBDA a :
      With({b \in {1, 2} :
              IsDigits(s, k + a + 1, b) /\ Char(s, k + a + 1 + b) = "/"}, LAMBDA B :
        IF B = {} THEN 0
        ELSE With(CHOOSE x \in B : TRUE, LAMBDA b :
          IF IsDigits(s, k + a + b + 2, 4) THEN a + b + 6 ELSE 0))))

\* The first position >= k of word s where a date matches, 0 when none.
RECURSIVE DatePos(_, _)
DatePos(s, k) ==
  IF k > Len(s) THEN 0
  ELSE IF DateLen(s, k) > 0 THEN k
  ELSE DatePos(s, k + 1)

\* re.findall of the date pattern in one word, left to right, not overlapping.
RECURSIVE DatesIn(_, _)
DatesIn(s, k) ==
  With(DatePos(s, k), LAMBDA p :
    IF p = 0 THEN <<>>
    ELSE With(DateLen(s, p), LAMBDA l :
           <<SubSeq(s, p, p + l - 1)>> \o DatesIn(s, p + l)))

\* The characters of [-to]+ under re.I.
JoinCh == {"-", "t", "o", "T", "O"}

\* (date)\s*[-to]+\s*(date) matched from position k of word i: the two
\* groups, <<>> when it does not match there.
RangeAt(ws, i, k) ==
  With(DateLen(ws[i], k), LAMBDA l1 :
    IF l1 = 0 THEN <<>>
    ELSE With(Hop(ws, i, k + l1), LAMBDA c1 :
      IF c1[1] > Len(ws) THEN <<>>
      ELSE With(RunEnd(ws[c1[1]], c1[2], JoinCh), LAMBDA r :
        IF r < c1[2] THEN <<>>
        ELSE With(Hop(ws, c1[1], r + 1), LAMBDA c2 :
          IF c2[1] > Len(ws) THEN <<>>
          ELSE With(DateLen(ws[c2[1]], c2[2]), LAMBDA l2 :
            IF l2 = 0 THEN <<>>
            ELSE <<SubSeq(ws[i], k, k + l1 - 1),
                   SubSeq(ws[c2[1]], c2[2], c2[2] + l2 - 1)>>)))))

\* re.search of the range pattern from position <<i, k>> on: the groups of
\* the leftmost match, <<>> when there is none.
RECURSIVE SearchRange(_, _, _)
SearchRange(ws, i, k) ==
  IF i > Len(ws) THEN <<>>
  ELSE With(DatePos(ws[i], k), LAMBDA p :
         IF p = 0 THEN SearchRange(ws, i + 1, 1)
         ELSE With(RangeAt(ws, i, p), LAMBDA m :
                IF m # <<>> THEN m ELSE SearchRange(ws, i, p + 1)))

\* \d{1,2}, as a whole word.
IsDayComma(s) ==
  \/ Len(s) = 2 /\ IsDigits(s, 1, 1) /\ Char(s, 2) = ","
  \/ Len(s) = 3 /\ IsDigits(s, 1, 2) /\ Char(s, 3) = ","

\* (\w+\s+\d{1,2},\s+\d{4}) with its \w+ in word i: the position in word i
\* where the leftmost such match starts, 0 when there is none.
VerbosePos(ws, i) ==
  IF i + 2 > Len(ws) THEN 0
  ELSE With(SuffixStart(ws[i], Len(ws[i]), WordCh), LAMBDA ss :
         IF ss <= Len(ws[i]) /\ IsDayComma(ws[i + 1]) /\ IsDigits(ws[i + 2], 1, 4)
         THEN ss ELSE 0)

\* The text that match covers.
VerboseText(ws, i) ==
  SubSeq(ws[i], VerbosePos(ws, i), Len(ws[i])) \o " " \o ws[i + 1] \o " "
    \o SubSeq(ws[i + 2], 1, 4)

\* The first word at or after i where a verbose date starts, 0 when none.
RECURSIVE SearchVerbose(_, _)
SearchVerbose(ws, i) ==
  IF i > Len(ws) THEN 0
  ELSE IF VerbosePos(ws, i) > 0 THEN i
  ELSE SearchVerbose(ws, i + 1)

\* (verbose)\s+to\s+(verbose) with the first \w+ in word i.
VerboseRangeAt(ws, i) ==
  /\ i + 6 <= Len(ws)
  /\ VerbosePos(ws, i) > 0
  /\ Len(ws[i + 2]) = 4
  /\ Lower(ws[i + 3]) = "to"
  /\ VerbosePos(ws, i + 4) = 1

RECURSIVE SearchVerboseRange(_, _)
SearchVerboseRange(ws, i) ==
  IF i > Len(ws) THEN 0
  ELSE IF VerboseRangeAt(ws, i) THEN i
  ELSE SearchVerboseRange(ws, i + 1)

\* re.search of a bare date: <<word, position>> of the leftmost, <<>> if none.
RECURSIVE SearchDate(_, _)
SearchDate(ws, i) ==
  IF i > Len(ws) THEN <<>>
  ELSE With(DatePos(ws[i], 1), LAMBDA p :
         IF p > 0 THEN <<i, p>> ELSE SearchDate(ws, i + 1))

DateText(ws, c) == SubSeq(ws[c[1]], c[2], c[2] + DateLen(ws[c[1]], c[2]) - 1)

\* re.findall(r'(\d{4})') in one word.
RECURSIVE Groups4(_, _)
Groups4(s, i) ==
  IF i + 3 > Len(s) THEN <<>>
  ELSE IF IsDigits(s, i, 4) THEN <<SubSeq(s, i, i + 3)>> \o Groups4(s, i + 4)
  ELSE Groups4(s, i + 1)

\* re.findall(r'([0-9,]+\.?\d*)') in one word.
RECURSIVE NumCands(_, _)
NumCands(s, i) ==
  IF i > Len(s) THEN <<>>
  ELSE IF Char(s, i) \in DigitCh \cup {","}
  THEN With(RunEnd(s, i, DigitCh \cup {","}), LAMBDA a :
         With(IF Char(s, a + 1) = "." THEN a + 1 ELSE a, LAMBDA b :
           With(RunEnd(s, b + 1, DigitCh), LAMBDA c :
             <<SubSeq(s, i, c)>> \o NumCands(s, c + 1))))
  ELSE NumCands(s, i + 1)

\* A findall over a whole text: the words' matches in order.
RECURSIVE AllGroups4(_)
AllGroups4(ws) ==
  IF ws = <<>> THEN <<>> ELSE Groups4(ws[1], 1) \o AllGroups4(Tail(ws))

RECURSIVE AllNumCands(_)
AllNumCands(ws) ==
  IF ws = <<>> THEN <<>> ELSE NumCands(ws[1], 1) \o AllNumCands(Tail(ws))

RECURSIVE AllDates(_)
AllDates(ws) ==
  IF ws = <<>> THEN <<>> ELSE DatesIn(ws[1], 1) \o AllDates(Tail(ws))

\* int() of a digit string, 0 for "".
RECURSIVE ToInt(_)
ToInt(s) ==
  IF s = "" THEN 0
  ELSE 10 * ToInt(SubSeq(s, 1, Len(s) - 1)) + DigitVal[Char(s, Len(s))]

\* str.replace(',', '').
RECURSIVE DropCommas(_)
DropCommas(s) ==
  IF s = "" THEN ""
  ELSE (IF Head(s) = "," THEN "" ELSE Head(s)) \o DropCommas(Tail(s))

\* float(s) of a number candidate with its commas removed; NoFloat where
\* float raises ValueError.  The documents' amounts have at most nine digits
\* and at most two fraction digits.
NoFloat == Flt(-1, 0)

FloatOf(ip, fp) ==
  IF ip = "" /\ fp = "" THEN NoFloat
  ELSE IF ~ (\A j \in 1..Len(ip) : Char(ip, j) \in DigitCh) THEN NoFloat
  ELSE IF ~ (\A j \in 1..Len(fp) : Char(fp, j) \in DigitCh) THEN NoFloat
  ELSE Flt(ToInt(ip), ToInt(SubSeq(fp \o "00", 1, 2)))

ParseFloat(s) ==
  With(IndexFrom(s, ".", 1), LAMBDA dot :
    FloatOf(IF dot = 0 THEN s ELSE SubSeq(s, 1, dot - 1),
            IF dot = 0 THEN "" ELSE SubSeq(s, dot + 1, Len(s))))

(* ------------------------------ labels -------------------------------- *)

\* A label pattern: the source's regular expression, and the word sequences
\* it matches (literal words joined by \s+; an alternation gives several).
Pat(re, alts) == [re |-> re, alts |-> alts]

FIELD_LABELS ==
  [card_last_4 |->
     << Pat("card\\s+(?:no|number)", {<<"card", "no">>, <<"card", "number">>}),
        Pat("card\\s+ending", {<<"card", "ending">>}),
        Pat("aan", {<<"aan">>}) >>,
   statement_period |->
     << Pat("statement\\s+period", {<<"statement", "period">>}),
        Pat("billing\\s+period", {<<"billing", "period">>}),
        Pat("statement\\s+date", {<<"statement", "date">>}) >>,
   due_date |->
     << Pat("payment\\s+due\\s+date", {<<"payment", "due", "date">>}),
        Pat("due\\s+date", {<<"due", "date">>}),
        Pat("pay\\s+by", {<<"pay", "by">>}) >>,
   amount_due |->
     << Pat("total\\s+payment\\s+due", {<<"total", "payment", "due">>}),
        Pat("total\\s+amount\\s+due", {<<"total", "amount", "due">>}),
        Pat("total\\s+dues", {<<"total", "dues">>}),
        Pat("amount\\s+due", {<<"amount", "due">>}),
        Pat("minimum\\s+amount\\s+due", {<<"minimum", "amount", "due">>}) >>,
   credit_limit |->
     << Pat("total\\s+credit\\s+limit", {<<"total", "credit", "limit">>}),
        Pat("credit\\s+limit", {<<"credit", "limit">>}) >>]

\* The iteration order of FIELD_LABELS.items().
Fields ==
  <<"card_last_4", "statement_period", "due_date", "amount_due", "credit_limit">>

FieldSet == {Fields[i] : i \in DOMAIN Fields}

SUMMARY_HEADERS ==
  << Pat("payment\\s+summary", {<<"payment", "summary">>}),
     Pat("statement\\s+summary", {<<"statement", "summary">>}),
     Pat("account\\s+summary", {<<"account", "summary">>}),
     Pat("credit\\s+summary", {<<"credit", "summary">>}) >>

TRANSACTION_ANCHORS ==
  << Pat("transactions?", {<<"transaction">>}),
     Pat("domestic\\s+transactions", {<<"domestic", "transactions">>}),
     Pat("your\\s+transactions", {<<"your", "transactions">>}) >>

NOISE_PATTERNS ==
  {"reward", "points", "3x", "6x", "bonus", "cashback", "igst", "gst",
   "convenience", "promo"}

\* The word sequence pw matched with its first word in word i of the
\* lower-cased text lw: the first word may sit at the end of lw[i], the last
\* at the start of its word, a single word anywhere inside lw[i].
WordsAt(lw, i, pw) ==
  IF Len(pw) = 1 THEN Contains(lw[i], pw[1])
  ELSE /\ i + Len(pw) - 1 <= Len(lw)
       /\ EndsWith(lw[i], pw[1])
       /\ \A j \in 2..(Len(pw) - 1) : lw[i + j - 1] = pw[j]
       /\ StartsWith(lw[i + Len(pw) - 1], pw[Len(pw)])

\* re.search(pattern, text) for a label pattern.
HasLabel(lw, pat) ==
  \E i \in DOMAIN lw : \E pw \in pat.alts : WordsAt(lw, i, pw)

AnyLabel(lw, pats) == \E j \in DOMAIN pats : HasLabel(lw, pats[j])

\* NOISE_PATTERNS.search(text).
IsNoise(ws) ==
  \E i \in DOMAIN ws : \E n \in NOISE_PATTERNS : Contains(Lower(ws[i]), n)

(* -------------------------- value extractors -------------------------- *)

AmountMin == 50
AmountMax == 1000000
LimitMin == 1000
LimitMaxByType == 50000000
LimitMaxGlobal == 5000000

\* The first candidate whose float lies strictly between lo and hi.
RECURSIVE FirstInWindow(_, _, _)
FirstInWindow(cands, lo, hi) ==
  IF cands = <<>> THEN Null
  ELSE With(ParseFloat(DropCommas(cands[1])), LAMBDA amt :
         IF amt # NoFloat /\ Between(lo, amt, hi) THEN NumV(amt)
         ELSE FirstInWindow(Tail(cands), lo, hi))

\* (date)|(verbose)|(immediate) searched from word i on: the leftmost match,
\* and at one position the first alternative that matches.
RECURSIVE SearchDue(_, _)
SearchDue(ws, i) ==
  IF i > Len(ws) THEN Null
  ELSE With(DatePos(ws[i], 1), LAMBDA kd :
       With(VerbosePos(ws, i), LAMBDA kv :
       With(IndexFrom(Lower(ws[i]), "immediate", 1), LAMBDA ki :
       With({k \in {kd, kv, ki} : k > 0}, LAMBDA ks :
         IF ks = {} THEN SearchDue(ws, i + 1)
         ELSE With(CHOOSE x \in ks : \A y \in ks : x <= y, LAMBDA k :
                IF k = kd THEN StrV(DateText(ws, <<i, kd>>))
                ELSE IF k = kv THEN StrV(VerboseText(ws, i))
                ELSE StrV("Immediate"))))))

\* A variant that returns the first group.
FirstGroup(groups) == IF groups # <<>> THEN StrV(groups[1]) ELSE Null

\* Lines 160-163: the last of the groups, each of which is four digits.
LastGroup(groups) == IF groups # <<>> THEN StrV(groups[Len(groups)]) ELSE Null

extract_by_type(field_name, text) ==
  IF text = <<>> THEN Null
  ELSE CASE field_name = "card_last_4" -> LastGroup(AllGroups4(text))
         [] field_name = "statement_period" ->
              With(SearchRange(text, 1, 1), LAMBDA r :
                IF r # <<>> THEN StrV(r[1] \o " to " \o r[2])
                ELSE With(SearchVerboseRange(text, 1), LAMBDA vr :
                  IF vr > 0
                  THEN StrV(VerboseText(text, vr) \o " to " \o VerboseText(text, vr + 4))
                  ELSE With(SearchDate(text, 1), LAMBDA d :
                    IF d # <<>> THEN StrV(DateText(text, d))
                    ELSE With(SearchVerbose(text, 1), LAMBDA v :
                      IF v > 0 THEN StrV(VerboseText(text, v)) ELSE Null))))
         [] field_name = "due_date" -> SearchDue(text, 1)
         [] field_name = "amount_due" ->
              FirstInWindow(AllNumCands(text), AmountMin, AmountMax)
         [] field_name = "credit_limit" ->
              FirstInWindow(AllNumCands(text), LimitMin, LimitMaxByType)
         [] OTHER -> Null

\* A variant that returns the value without its tag.
FoundUntagged(val, src) == [val |-> val, src |-> Null]

\* A tier's return value: (value, source).
Found(val, src) == [val |-> val, src |-> StrV(src)]
NotFound == [val |-> Null, src |-> Null]

\* The first candidate of a list that yields a value, Null when none does.
RECURSIVE FirstValue(_, _)
FirstValue(field_name, cands) ==
  IF cands = <<>> THEN Null
  ELSE With(extract_by_type(field_name, cands[1]), LAMBDA val :
         IF val # Null THEN val ELSE FirstValue(field_name, Tail(cands)))

(* ----------------------------- table tier ----------------------------- *)

TableCands == 3

\* The cells right of the label cell, then the cell below it in each later
\* row that is wide enough.
RECURSIVE Below(_, _, _)
Below(table, r, c) ==
  IF r > Len(table) THEN <<>>
  ELSE (IF c <= Len(table[r]) THEN <<table[r][c]>> ELSE <<>>) \o Below(table, r + 1, c)

Candidates(table, r, c) ==
  SubSeq(table[r], c + 1, Len(table[r])) \o Below(table, r + 1, c)

\* A variant that keeps every candidate.
FirstNAll(seq, n) == seq

\* Line 215: candidates[:3].
FirstN(seq, n) == SubSeq(seq, 1, IF Len(seq) < n THEN Len(seq) ELSE n)

\* The loop over patterns for one cell, from pattern p on.
RECURSIVE CellPatterns(_, _, _, _, _, _)
CellPatterns(field_name, patterns, table, r, c, p) ==
  IF p > Len(patterns) THEN NotFound
  ELSE With(IF HasLabel(LowerAll(table[r][c]), patterns[p])
            THEN FirstValue(field_name, FirstN(Candidates(table, r, c), TableCands))
            ELSE Null, LAMBDA val :
         IF val # Null THEN Found(val, "table:" \o patterns[p].re)
         ELSE CellPatterns(field_name, patterns, table, r, c, p + 1))

RECURSIVE TableCells(_, _, _, _, _)
TableCells(field_name, patterns, table, r, c) ==
  IF r > Len(table) THEN NotFound
  ELSE IF c > Len(table[r]) THEN TableCells(field_name, patterns, table, r + 1, 1)
  ELSE With(CellPatterns(field_name, patterns, table, r, c, 1), LAMBDA hit :
         IF hit # NotFound THEN hit
         ELSE TableCells(field_name, patterns, table, r, c + 1))

RECURSIVE find_in_tables(_, _, _)
find_in_tables(tbls, field_name, patterns) ==
  IF tbls = <<>> THEN NotFound
  ELSE With(TableCells(field_name, patterns, tbls[1], 1, 1), LAMBDA hit :
         IF hit # NotFound THEN hit
         ELSE find_in_tables(Tail(tbls), field_name, patterns))

(* ----------------------------- block tier ----------------------------- *)

LookBack == 5
ZoneSlack == 10
LookAhead == 6
NearX == 100

Min(a, b) == IF a < b THEN a ELSE b
Max(a, b) == IF a > b THEN a ELSE b
Abs(a) == IF a < 0 THEN 0 - a ELSE a

\* The sort key (page, bbox[1], bbox[0]), compared as Python compares tuples.
KeyLess(a, b) ==
  \/ a.page < b.page
  \/ a.page = b.page /\ a.bbox[2] < b.bbox[2]
  \/ a.page = b.page /\ a.bbox[2] = b.bbox[2] /\ a.bbox[1] < b.bbox[1]

\* b put into a sorted list after every block that is not greater than it.
RECURSIVE Insert(_, _)
Insert(sorted, b) ==
  IF sorted = <<>> THEN <<b>>
  ELSE IF KeyLess(b, sorted[1]) THEN <<b>> \o sorted
  ELSE <<sorted[1]>> \o Insert(Tail(sorted), b)

\* sorted(blocks, key=...): a stable sort.
RECURSIVE SortBlocks(_)
SortBlocks(blks) ==
  IF blks = <<>> THEN <<>>
  ELSE Insert(SortBlocks(SubSeq(blks, 1, Len(blks) - 1)), blks[Len(blks)])

\* The loop of _find_summary_zone from index idx (0-based) on, with the
\* start found so far.
RECURSIVE ZoneFrom(_, _, _)
ZoneFrom(sorted_blocks, idx, start) ==
  IF idx >= Len(sorted_blocks) THEN <<start, Len(sorted_blocks) - 1>>
  ELSE With(LowerAll(sorted_blocks[idx + 1].text), LAMBDA lw :
       With(IF AnyLabel(lw, SUMMARY_HEADERS) THEN Max(0, idx - LookBack)
            ELSE start, LAMBDA start2 :
         IF AnyLabel(lw, TRANSACTION_ANCHORS) THEN <<start2, idx>>
         ELSE ZoneFrom(sorted_blocks, idx + 1, start2)))

find_summary_zone(sorted_blocks) == ZoneFrom(sorted_blocks, 0, 0)

\* A variant that looks ahead to the end of the list.
RECURSIVE NearValueToEnd(_, _, _, _)
NearValueToEnd(field_name, sorted_blocks, idx, offset) ==
  IF offset >= Len(sorted_blocks) - idx THEN Null
  ELSE With(sorted_blocks[idx + 1], LAMBDA block :
       With(sorted_blocks[idx + offset + 1], LAMBDA next_block :
       With(IF Abs(next_block.bbox[1] - block.bbox[1]) < NearX
            THEN extract_by_type(field_name, next_block.text)
            ELSE Null, LAMBDA val :
         IF val # Null THEN val
         ELSE NearValueToEnd(field_name, sorted_blocks, idx, offset + 1))))

\* The look-ahead loop from offset on, for the label block at index idx.
RECURSIVE NearValue(_, _, _, _)
NearValue(field_name, sorted_blocks, idx, offset) ==
  IF offset >= Min(LookAhead, Len(sorted_blocks) - idx) THEN Null
  ELSE With(sorted_blocks[idx + 1], LAMBDA block :
       With(sorted_blocks[idx + offset + 1], LAMBDA next_block :
       With(IF Abs(next_block.bbox[1] - block.bbox[1]) < NearX
            THEN extract_by_type(field_name, next_block.text)
            ELSE Null, LAMBDA val :
         IF val # Null THEN val
         ELSE NearValue(field_name, sorted_blocks, idx, offset + 1))))

\* The loop over patterns for the block at index idx, from pattern p on.
RECURSIVE BlockPatterns(_, _, _, _, _)
BlockPatterns(field_name, patterns, sorted_blocks, idx, p) ==
  IF p > Len(patterns) THEN NotFound
  ELSE IF ~ HasLabel(LowerAll(sorted_blocks[idx + 1].text), patterns[p])
  THEN BlockPatterns(field_name, patterns, sorted_blocks, idx, p + 1)
  ELSE With(extract_by_type(field_name, sorted_blocks[idx + 1].text), LAMBDA val :
         IF val # Null THEN Found(val, "block:" \o patterns[p].re)
         ELSE With(NearValue(field_name, sorted_blocks, idx, 1), LAMBDA near :
                IF near # Null THEN Found(near, "block-near:" \o patterns[p].re)
                ELSE BlockPatterns(field_name, patterns, sorted_blocks, idx, p + 1)))

\* The loop over the zone's blocks from index idx up to, not including, stop.
RECURSIVE ZoneBlocks(_, _, _, _, _)
ZoneBlocks(field_name, patterns, sorted_blocks, idx, stop) ==
  IF idx >= stop THEN NotFound
  ELSE IF IsNoise(sorted_blocks[idx + 1].text)
  THEN ZoneBlocks(field_name, patterns, sorted_blocks, idx + 1, stop)
  ELSE With(BlockPatterns(field_name, patterns, sorted_blocks, idx, 1), LAMBDA hit :
         IF hit # NotFound THEN hit
         ELSE ZoneBlocks(field_name, patterns, sorted_blocks, idx + 1, stop))

find_in_blocks(blks, field_name, patterns) ==
  With(SortBlocks(blks), LAMBDA sorted_blocks :
  With(find_summary_zone(sorted_blocks), LAMBDA zone :
    ZoneBlocks(field_name, patterns, sorted_blocks, zone[1],
               Min(zone[2] + ZoneSlack, Len(sorted_blocks)))))

(* ----------------------------- global tier ---------------------------- *)

\* The raw text is [ws |-> its words, trail |-> whether whitespace follows
\* the last word]: $ matches only at the very end of the text.

Least(S) == CHOOSE x \in S : \A y \in S : x <= y

\* The character at a position, "" past the end of the text.
At(ws, c) == IF c[1] <= Len(ws) THEN Char(ws[c[1]], c[2]) ELSE ""

\* Whether position c is at or after position d.
NotBefore(c, d) == c[1] > d[1] \/ (c[1] = d[1] /\ c[2] >= d[2])

\* \s*[:=]?\s* from position <<i, k>>.
OptSep(ws, i, k) ==
  With(Hop(ws, i, k), LAMBDA c :
    IF At(ws, c) \in {":", "="} THEN Hop(ws, c[1], c[2] + 1) ELSE c)

\* \s*[:\s]* from position <<i, k>>.
RECURSIVE SkipColons(_, _, _)
SkipColons(ws, i, k) ==
  IF i > Len(ws) THEN <<i, k>>
  ELSE IF k > Len(ws[i]) THEN SkipColons(ws, i + 1, 1)
  ELSE IF Char(ws[i], k) = ":" THEN SkipColons(ws, i, k + 1)
  ELSE <<i, k>>

\* The literal p at position c of the lower-cased text.
LitAt(lw, c, p) ==
  c[1] <= Len(lw) /\ SubSeq(lw[c[1]], c[2], Min(Len(lw[c[1]]), c[2] + Len(p) - 1)) = p

\* \d{4} at position c: the digits, "" when they are not there.
Digits4At(ws, c) ==
  IF c[1] <= Len(ws) /\ IsDigits(ws[c[1]], c[2], 4)
  THEN SubSeq(ws[c[1]], c[2], c[2] + 3) ELSE ""

\* The date at position c, "" when there is none.
DateAt(ws, c) ==
  IF c[1] <= Len(ws) /\ DateLen(ws[c[1]], c[2]) > 0 THEN DateText(ws, c) ELSE ""

\* (\w+\s+\d{1,2},\s+\d{4}) matched from position c, "" when it does not.
VerboseAt(ws, c) ==
  IF /\ c[1] + 2 <= Len(ws)
     /\ c[2] <= Len(ws[c[1]])
     /\ \A j \in c[2]..Len(ws[c[1]]) : Char(ws[c[1]], j) \in WordCh
     /\ IsDayComma(ws[c[1] + 1])
     /\ IsDigits(ws[c[1] + 2], 1, 4)
  THEN SubSeq(ws[c[1]], c[2], Len(ws[c[1]])) \o " " \o ws[c[1] + 1] \o " "
         \o SubSeq(ws[c[1] + 2], 1, 4)
  ELSE ""

\* ([0-9,]+\.?\d*) matched at position c, "" when it does not.
NumAt(ws, c) ==
  IF At(ws, c) \in DigitCh \cup {","} THEN Head(NumCands(ws[c[1]], c[2])) ELSE ""

\* The first position at or after <<i, k>> that holds a character of cs; a
\* position past the text when there is none.
RECURSIVE Seek(_, _, _, _)
Seek(ws, i, k, cs) ==
  IF i > Len(ws) THEN <<i, 1>>
  ELSE With({j \in k..Len(ws[i]) : Char(ws[i], j) \in cs}, LAMBDA ks :
         IF ks # {} THEN <<i, Least(ks)>> ELSE Seek(ws, i + 1, 1, cs))

\* A two- or three-word label whose first word ends word i: the position
\* just after it.  last is the literal its last word starts with.
LabelEnd(lw, i, pw) == <<i + Len(pw) - 1, Len(pw[Len(pw)]) + 1>>

\* The word indexes where the word sequence pw matches.
Starts(lw, pw) == {i \in DOMAIN lw : WordsAt(lw, i, pw)}

\* \b after a label that ends just before position c.
Boundary(ws, c) == At(ws, c) \notin WordCh

\* --- card_last_4 ---

MaskCh == {"*", "x", "X"}
XCh == {"x", "X"}

\* (\d{4})\s*[\*X]{4,}$ : the digits in front of the mask that ends the
\* text, as <<word, position, digits>>; <<>> when the text does not end so.
MaskedTail(rt) ==
  IF rt.trail \/ rt.ws = <<>> THEN <<>>
  ELSE With(Len(rt.ws), LAMBDA n :
       With(rt.ws[n], LAMBDA last :
       With(SuffixStart(last, Len(last), MaskCh), LAMBDA ms :
         IF Len(last) - ms + 1 < 4 THEN <<>>
         ELSE IF ms > 4 /\ IsDigits(last, ms - 4, 4)
         THEN <<n, ms - 4, SubSeq(last, ms - 4, ms - 1)>>
         ELSE IF ms = 1 /\ n > 1 /\ Len(rt.ws[n - 1]) >= 4
                 /\ IsDigits(rt.ws[n - 1], Len(rt.ws[n - 1]) - 3, 4)
         THEN <<n - 1, Len(rt.ws[n - 1]) - 3,
                SubSeq(rt.ws[n - 1], Len(rt.ws[n - 1]) - 3, Len(rt.ws[n - 1]))>>
         ELSE <<>>)))

\* (\d{4})$ : the digits that end the text.
DigitTail(rt) ==
  IF rt.trail \/ rt.ws = <<>> THEN <<>>
  ELSE With(Len(rt.ws), LAMBDA n :
       With(rt.ws[n], LAMBDA last :
         IF Len(last) >= 4 /\ IsDigits(last, Len(last) - 3, 4)
         THEN <<n, Len(last) - 3, SubSeq(last, Len(last) - 3, Len(last))>>
         ELSE <<>>))

\* card\s+no ... followed, not before the label's end, by the tail t.
CardLabelBefore(lw, t) ==
  t # <<>> /\ \E i \in Starts(lw, <<"card", "no">>) :
                NotBefore(<<t[1], t[2]>>, <<i + 1, 3>>)

\* (\d{4})\s*X{4,}\s*(\d{4}) matched from position <<i, k>>: group 2.
MaskedPairAt(ws, i, k) ==
  IF ~ IsDigits(ws[i], k, 4) THEN ""
  ELSE With(Hop(ws, i, k + 4), LAMBDA c :
         IF c[1] > Len(ws) THEN ""
         ELSE With(RunEnd(ws[c[1]], c[2], XCh), LAMBDA r :
                IF r - c[2] + 1 < 4 THEN ""
                ELSE Digits4At(ws, Hop(ws, c[1], r + 1))))

\* re.search of it from word i on: the leftmost match.
RECURSIVE SearchMaskedPair(_, _)
SearchMaskedPair(ws, i) ==
  IF i > Len(ws) THEN ""
  ELSE With({k \in 1..Len(ws[i]) : MaskedPairAt(ws, i, k) # ""}, LAMBDA ks :
         IF ks # {} THEN MaskedPairAt(ws, i, Least(ks))
         ELSE SearchMaskedPair(ws, i + 1))

IsMaskWord(s) == Len(s) >= 4 /\ \A j \in 1..Len(s) : Char(s, j) \in XCh

\* (\d{4})\s+X{4,}\s+X{4,}\s+(\d{4}) with the first digits ending word i.
MaskedQuadAt(ws, i) ==
  /\ i + 3 <= Len(ws)
  /\ Len(ws[i]) >= 4 /\ IsDigits(ws[i], Len(ws[i]) - 3, 4)
  /\ IsMaskWord(ws[i + 1]) /\ IsMaskWord(ws[i + 2])
  /\ IsDigits(ws[i + 3], 1, 4)

\* XXXX\s+(\d{4}) and X{4}\s+(\d{4}) with the mask ending word i.
MaskThenDigitsAt(lw, i) ==
  i + 1 <= Len(lw) /\ EndsWith(lw[i], "xxxx") /\ IsDigits(lw[i + 1], 1, 4)

global_card(rt) ==
  With(rt.ws, LAMBDA ws :
  With(LowerAll(ws), LAMBDA lw :
  With(MaskedTail(rt), LAMBDA p1 :
    IF CardLabelBefore(lw, p1) THEN Found(StrV(p1[3]), "global")
    ELSE With(SearchMaskedPair(ws, 1), LAMBDA p2 :
    IF p2 # "" THEN Found(StrV(p2), "global")
    ELSE With({i \in DOMAIN ws : MaskedQuadAt(ws, i)}, LAMBDA p3 :
    IF p3 # {} THEN Found(StrV(SubSeq(ws[Least(p3) + 3], 1, 4)), "global")
    ELSE With({i \in DOMAIN ws : MaskThenDigitsAt(lw, i)}, LAMBDA p4 :
    IF p4 # {} THEN Found(StrV(SubSeq(ws[Least(p4) + 1], 1, 4)), "global")
    ELSE With(DigitTail(rt), LAMBDA p6 :
    IF CardLabelBefore(lw, p6) THEN Found(StrV(p6[3]), "global")
    ELSE NotFound)))))))

\* --- statement_period ---

SnippetLen == 1000

\* The first n characters of the words ws joined by single spaces, as words.
RECURSIVE TakeChars(_, _)
TakeChars(ws, n) ==
  IF ws = <<>> \/ n <= 0 THEN <<>>
  ELSE IF Len(ws[1]) >= n THEN <<SubSeq(ws[1], 1, n)>>
  ELSE <<ws[1]>> \o TakeChars(Tail(ws), n - Len(ws[1]) - 1)

\* raw_text[start:start + 1000] for the label that starts in word i.
Snippet(ws, i) ==
  TakeChars(<<SubSeq(ws[i + 1], 7, Len(ws[i + 1]))>> \o SubSeq(ws, i + 2, Len(ws)),
            SnippetLen)

DateDay(d) == ToInt(SubSeq(d, 1, IndexFrom(d, "/", 1) - 1))
DateMonth(d) ==
  With(IndexFrom(d, "/", 1), LAMBDA a :
    ToInt(SubSeq(d, a + 1, IndexFrom(d, "/", a + 1) - 1)))
DateYear(d) == ToInt(SubSeq(d, Len(d) - 3, Len(d)))

IsLeap(y) == (y % 4 = 0 /\ y % 100 # 0) \/ y % 400 = 0

DaysIn(m, y) ==
  IF m = 2 THEN (IF IsLeap(y) THEN 29 ELSE 28)
  ELSE IF m \in {4, 6, 9, 11} THEN 30 ELSE 31

\* Whether datetime.strptime(d, '%d/%m/%Y') returns.
DateValid(d) ==
  With(DateYear(d), LAMBDA y :
  With(DateMonth(d), LAMBDA mo :
  With(DateDay(d), LAMBDA dy :
    y >= 1 /\ mo \in 1..12 /\ dy >= 1 /\ dy <= DaysIn(mo, y))))

DateKey(d) == 10000 * DateYear(d) + 100 * DateMonth(d) + DateDay(d)

RECURSIVE ValidDates(_)
ValidDates(ds) ==
  IF ds = <<>> THEN <<>>
  ELSE (IF DateValid(ds[1]) THEN <<ds[1]>> ELSE <<>>) \o ValidDates(Tail(ds))

\* d put into a list sorted by date, after every date that is not later.
RECURSIVE InsertDate(_, _)
InsertDate(sorted, d) ==
  IF sorted = <<>> THEN <<d>>
  ELSE IF DateKey(d) < DateKey(sorted[1]) THEN <<d>> \o sorted
  ELSE <<sorted[1]>> \o InsertDate(Tail(sorted), d)

\* list.sort(key=lambda x: x[0]): a stable sort by date.
RECURSIVE SortDates(_)
SortDates(ds) ==
  IF ds = <<>> THEN <<>>
  ELSE InsertDate(SortDates(SubSeq(ds, 1, Len(ds) - 1)), ds[Len(ds)])

\* The dates of the snippet after the first 'statement period' that parse.
valid_snippet(ws) ==
  With(Starts(LowerAll(ws), <<"statement", "period">>), LAMBDA labels :
    IF labels = {} THEN <<>>
    ELSE ValidDates(AllDates(Snippet(ws, Least(labels)))))

\* statement\s+(?:period|date) with 'statement' ending word i: the position
\* after the label, <<>> when it does not match.
StatementLabel(lw, i) ==
  IF WordsAt(lw, i, <<"statement", "period">>) THEN <<i + 1, 7>>
  ELSE IF WordsAt(lw, i, <<"statement", "date">>) THEN <<i + 1, 5>>
  ELSE <<>>

\* billing\s+(?:date|period).
BillingLabel(lw, i) ==
  IF WordsAt(lw, i, <<"billing", "date">>) THEN <<i + 1, 5>>
  ELSE IF WordsAt(lw, i, <<"billing", "period">>) THEN <<i + 1, 7>>
  ELSE <<>>

\* The position where the value after the statement label in word i starts.
AfterStatement(ws, lw, i) ==
  With(StatementLabel(lw, i), LAMBDA e : SkipColons(ws, e[1], e[2]))

\* The position where the value after a billing label starts.
AfterBilling(ws, lw, i) ==
  With(BillingLabel(lw, i), LAMBDA e : SkipColons(ws, e[1], e[2]))

\* The range pattern matched right after the statement label in word i.
RangeAfter(ws, lw, i) ==
  With(AfterStatement(ws, lw, i), LAMBDA c :
    IF c[1] <= Len(ws) THEN RangeAt(ws, c[1], c[2]) ELSE <<>>)

global_period(rt) ==
  With(rt.ws, LAMBDA ws :
  With(LowerAll(ws), LAMBDA lw :
  With(valid_snippet(ws), LAMBDA vs :
    IF Len(vs) >= 2
    THEN With(SortDates(vs), LAMBDA sorted :
           Found(StrV(sorted[1] \o " to " \o sorted[2]), "global"))
    ELSE With({i \in DOMAIN ws : StatementLabel(lw, i) # <<>>}, LAMBDA st :
    With({i \in st : RangeAfter(ws, lw, i) # <<>>}, LAMBDA r1 :
    IF r1 # {}
    THEN With(RangeAfter(ws, lw, Least(r1)), LAMBDA g :
           Found(StrV(g[1] \o " to " \o g[2]), "global"))
    ELSE With(SearchRange(ws, 1, 1), LAMBDA r2 :
    IF r2 # <<>> THEN Found(StrV(r2[1] \o " to " \o r2[2]), "global")
    ELSE With(SearchVerboseRange(ws, 1), LAMBDA r3 :
    IF r3 > 0
    THEN Found(StrV(VerboseText(ws, r3) \o " to " \o VerboseText(ws, r3 + 4)), "global")
    ELSE With({i \in st : DateAt(ws, AfterStatement(ws, lw, i)) # ""}, LAMBDA s1 :
    IF s1 # {}
    THEN Found(StrV(DateAt(ws, AfterStatement(ws, lw, Least(s1)))), "global")
    ELSE With({i \in DOMAIN ws :
                 /\ BillingLabel(lw, i) # <<>>
                 /\ DateAt(ws, AfterBilling(ws, lw, i)) # ""}, LAMBDA s2 :
    IF s2 # {}
    THEN Found(StrV(DateAt(ws, AfterBilling(ws, lw, Least(s2)))), "global")
    ELSE With({i \in st : VerboseAt(ws, AfterStatement(ws, lw, i)) # ""}, LAMBDA s3 :
    IF s3 # {}
    THEN Found(StrV(VerboseAt(ws, AfterStatement(ws, lw, Least(s3)))), "global")
    ELSE NotFound))))))))))

\* --- due_date ---

\* Whether 'immediate' occurs at or after position c.
ImmediateFrom(lw, c) ==
  \E j \in DOMAIN lw :
    \/ j > c[1] /\ Contains(lw[j], "immediate")
    \/ j = c[1] /\ IndexFrom(lw[j], "immediate", c[2]) > 0

global_due(rt) ==
  With(rt.ws, LAMBDA ws :
  With(LowerAll(ws), LAMBDA lw :
  With(Starts(lw, <<"payment", "due", "date">>), LAMBDA pdd :
  With(Starts(lw, <<"due", "date">>), LAMBDA dd :
    IF \/ \E i \in pdd : LitAt(lw, OptSep(ws, i + 2, 5), "immediate")
       \/ \E i \in dd : ImmediateFrom(lw, <<i + 1, 5>>)
    THEN Found(StrV("Immediate"), "global")
    ELSE With({i \in pdd : DateAt(ws, OptSep(ws, i + 2, 5)) # ""}, LAMBDA d1 :
    IF d1 # {}
    THEN Found(StrV(DateAt(ws, OptSep(ws, Least(d1) + 2, 5))), "global")
    ELSE With({i \in dd : DateAt(ws, OptSep(ws, i + 1, 5)) # ""}, LAMBDA d2 :
    IF d2 # {}
    THEN Found(StrV(DateAt(ws, OptSep(ws, Least(d2) + 1, 5))), "global")
    ELSE With({i \in pdd : VerboseAt(ws, OptSep(ws, i + 2, 5)) # ""}, LAMBDA d3 :
    IF d3 # {}
    THEN Found(StrV(VerboseAt(ws, OptSep(ws, Least(d3) + 2, 5))), "global")
    ELSE With({i \in dd : VerboseAt(ws, OptSep(ws, i + 1, 5)) # ""}, LAMBDA d4 :
    IF d4 # {}
    THEN Found(StrV(VerboseAt(ws, OptSep(ws, Least(d4) + 1, 5))), "global")
    ELSE NotFound))))))))

\* --- amount_due, credit_limit ---

FallbackAmountMin == 100
FallbackAmountMax == 500000
FallbackLimitMin == 5000
FallbackLimitMax == 1000000

NumCh == DigitCh \cup {","}

\* \s*[:=]?\s*(?:CURR\s*)?\s*([0-9,]+\.?\d*) from position c: group 1.
Cont1(ws, lw, c) ==
  With(OptSep(ws, c[1], c[2]), LAMBDA c1 :
    NumAt(ws, IF LitAt(lw, c1, "curr") THEN Hop(ws, c1[1], c1[2] + 4) ELSE c1))

\* \b\s*[:=]?\s*(?:CURR\s*)?\s*([0-9,]+\.?\d*) from position c.
Cont2(ws, lw, c) == IF Boundary(ws, c) THEN Cont1(ws, lw, c) ELSE ""

\* \b.*?\s*([0-9,]+\.?\d*) from position c.
Cont3(ws, lw, c) ==
  IF Boundary(ws, c) THEN NumAt(ws, Seek(ws, c[1], c[2], NumCh)) ELSE ""

Cont(n, ws, lw, c) ==
  IF n = 1 THEN Cont1(ws, lw, c)
  ELSE IF n = 2 THEN Cont2(ws, lw, c)
  ELSE Cont3(ws, lw, c)

\* total\s+(?:payment\s+)?(?:amount\s+)?due, the first alternative of the
\* amount_due patterns: the label alone, with no group.
TotalDueAt(lw, i) ==
  \/ WordsAt(lw, i, <<"total", "due">>)
  \/ WordsAt(lw, i, <<"total", "payment", "due">>)
  \/ WordsAt(lw, i, <<"total", "amount", "due">>)
  \/ WordsAt(lw, i, <<"total", "payment", "amount", "due">>)

\* group(1) of re.search of the n-th pattern, "" when there is no match or
\* the match has no group 1.  For amount_due the label's | splits the whole
\* pattern in two alternatives, and only the second one holds the group.
PrimaryGroup(field_name, n, ws, lw) ==
  IF field_name = "amount_due"
  THEN With({i \in DOMAIN lw : TotalDueAt(lw, i)}, LAMBDA a1 :
       With({i \in Starts(lw, <<"total", "dues">>) :
               Cont(n, ws, lw, <<i + 1, 5>>) # ""}, LAMBDA a2 :
         IF a1 \cup a2 = {} THEN ""
         ELSE IF Least(a1 \cup a2) \in a1 THEN ""
         ELSE Cont(n, ws, lw, <<Least(a2) + 1, 5>>)))
  ELSE With({i \in Starts(lw, <<"credit", "limit">>) :
               Cont(n, ws, lw, <<i + 1, 6>>) # ""}, LAMBDA a :
         IF a = {} THEN "" ELSE Cont(n, ws, lw, <<Least(a) + 1, 6>>))

\* The loop over the three label patterns, from pattern n on.
RECURSIVE PrimaryAmount(_, _, _, _)
PrimaryAmount(field_name, n, ws, lw) ==
  IF n > 3 THEN Null
  ELSE With(PrimaryGroup(field_name, n, ws, lw), LAMBDA g :
       With(IF g = "" THEN NoFloat ELSE ParseFloat(DropCommas(g)), LAMBDA amt :
       With(IF field_name = "amount_due" THEN AmountMin ELSE LimitMin, LAMBDA min_val :
       With(IF field_name = "amount_due" THEN AmountMax ELSE LimitMaxGlobal, LAMBDA max_val :
         IF amt # NoFloat /\ Between(min_val, amt, max_val) THEN NumV(amt)
         ELSE PrimaryAmount(field_name, n + 1, ws, lw)))))

\* The summary keywords: (account\s+summary|total\s+amount\s+due|credit\s+limit).
SummaryKeywords ==
  {<<"account", "summary">>, <<"total", "amount", "due">>, <<"credit", "limit">>}

\* The text a keyword matches, its first word ending word i.
KeywordText(ws, i, pw) ==
  Join(<<SubSeq(ws[i], Len(ws[i]) - Len(pw[1]) + 1, Len(ws[i]))>>
       \o SubSeq(ws, i + 1, i + Len(pw) - 2)
       \o <<SubSeq(ws[i + Len(pw) - 1], 1, Len(pw[Len(pw)]))>>)

\* The words where summary_keywords + '.*?([0-9,]+\.?\d*)' matches: a keyword
\* with a number somewhere after it.
FallbackHits(ws, lw) ==
  {i \in DOMAIN lw :
     \E pw \in SummaryKeywords :
       /\ WordsAt(lw, i, pw)
       /\ With(LabelEnd(lw, i, pw), LAMBDA e :
            Seek(ws, e[1], e[2], NumCh)[1] <= Len(ws))}

\* group(1) of the fallback's match, summary_keywords + '.*?([0-9,]+\.?\d*)':
\* group 1 is the keyword, the number is group 2.  "" when there is no match.
FallbackGroup1(ws, lw) ==
  With(FallbackHits(ws, lw), LAMBDA hits :
    IF hits = {} THEN ""
    ELSE With(Least(hits), LAMBDA i :
           KeywordText(ws, i, CHOOSE q \in SummaryKeywords : WordsAt(lw, i, q))))

\* group(2) of the same match: the first number after the keyword.
FallbackGroup2(ws, lw) ==
  With(FallbackHits(ws, lw), LAMBDA hits :
    IF hits = {} THEN ""
    ELSE With(Least(hits), LAMBDA i :
         With(LabelEnd(lw, i, CHOOSE q \in SummaryKeywords : WordsAt(lw, i, q)),
              LAMBDA e : NumAt(ws, Seek(ws, e[1], e[2], NumCh)))))

\* A variant that hands over the number, group(2).
FallbackAmtStrNumber(ws, lw) == DropCommas(FallbackGroup2(ws, lw))

\* The string the fallback hands to float().
FallbackAmtStr(ws, lw) == DropCommas(FallbackGroup1(ws, lw))

FallbackAmount(field_name, ws, lw) ==
  With(FallbackAmtStr(ws, lw), LAMBDA g :
  With(IF g = "" THEN NoFloat ELSE ParseFloat(g), LAMBDA amt :
    IF amt = NoFloat THEN Null
    ELSE IF \/ /\ field_name = "amount_due"
               /\ Between(FallbackAmountMin, amt, FallbackAmountMax)
            \/ /\ field_name = "credit_limit"
               /\ Between(FallbackLimitMin, amt, FallbackLimitMax)
    THEN NumV(amt)
    ELSE Null))

global_amount(field_name, rt) ==
  With(LowerAll(rt.ws), LAMBDA lw :
  With(PrimaryAmount(field_name, 1, rt.ws, lw), LAMBDA primary :
    IF primary # Null THEN Found(primary, "global")
    ELSE With(FallbackAmount(field_name, rt.ws, lw), LAMBDA fallback :
           IF fallback # Null THEN Found(fallback, "global-fallback")
           ELSE NotFound)))

global_search(rt, field_name) ==
  CASE field_name = "card_last_4" -> global_card(rt)
    [] field_name = "statement_period" -> global_period(rt)
    [] field_name = "due_date" -> global_due(rt)
    [] OTHER -> global_amount(field_name, rt)

\* The entries _global_search appends to the debug log when it returns hit.
global_log(rt, field_name, hit) ==
  <<field_name \o ": trying global search">>
  \o (IF field_name = "statement_period"
         /\ Starts(LowerAll(rt.ws), <<"statement", "period">>) # {}
      THEN <<"Snippet dates", "Valid dates">>
           \o (IF Len(valid_snippet(rt.ws)) >= 2
               THEN <<"statement_period: sorted snippet dates">> ELSE <<>>)
      ELSE <<>>)
  \o (IF \/ field_name \in {"card_last_4", "due_date"} /\ hit # NotFound
         \/ field_name \in {"amount_due", "credit_limit"} /\ hit.src = StrV("global")
      THEN <<field_name \o ": global found">> ELSE <<>>)

(* ------------------------------ the parser ---------------------------- *)

VARIABLES
  file,        \* the PDF as its readers see it: pages of tables, blocks, text
  pdfplumber,  \* PDFPLUMBER_AVAILABLE
  pc,          \* "new", "ready", "loop", "score", "done"
  tables,      \* self.tables
  blocks,      \* self.blocks
  raw_text,    \* self.raw_text
  debug_log,   \* self.debug_log
  fi,          \* extract: the index in Fields of the field being resolved
  tier,        \* extract: the tier the loop body is about to reach
  value,       \* extract: the local value
  source,      \* extract: the local source
  result,      \* extract: the dict result
  alerts,      \* extract: the list alerts
  tried,       \* history: per field, the tiers called and whether each
               \* returned a value
  faults,      \* the number of exceptions raised so far
  first,       \* history: the result the first call of extract returned
  provider     \* LLMExtractor: self.provider

vars ==
  <<file, pdfplumber, pc, tables, blocks, raw_text, debug_log, fi, tier,
    value, source, result, alerts, tried, faults, first, provider>>

\* The most exceptions one run raises.
MaxFaults == 1

\* dict assignment: d[k] = v.
Put(d, k, v) == [x \in DOMAIN d \cup {k} |-> IF x = k THEN v ELSE d[x]]

EmptyDict == [x \in {} |-> Null]

(* --- __init__ --- *)

RECURSIVE PageTables(_, _)
PageTables(pages, upto) ==
  IF upto = 0 THEN <<>> ELSE PageTables(pages, upto - 1) \o pages[upto].tables

RECURSIVE PageTablesLog(_, _)
PageTablesLog(pages, upto) ==
  IF upto = 0 THEN <<>>
  ELSE PageTablesLog(pages, upto - 1)
       \o (IF pages[upto].tables # <<>> THEN <<"Page: table(s)">> ELSE <<>>)

\* The blocks of the pages 1..upto, each with its page number (0-based).
RECURSIVE PageBlocks(_, _)
PageBlocks(pages, upto) ==
  IF upto = 0 THEN <<>>
  ELSE PageBlocks(pages, upto - 1)
       \o [j \in DOMAIN pages[upto].blocks |->
             [text |-> pages[upto].blocks[j].text,
              bbox |-> pages[upto].blocks[j].bbox,
              page |-> upto - 1]]

\* "\n".join(page.get_text() for page in doc), as words.
RECURSIVE PageWords(_, _)
PageWords(pages, upto) ==
  IF upto = 0 THEN <<>> ELSE PageWords(pages, upto - 1) \o pages[upto].text

\* An occurrence of p in s replaced by r, as re.sub and str.replace do it:
\* left to right, not overlapping.
RECURSIVE ReplaceAll(_, _, _)
ReplaceAll(s, p, r) ==
  With(IndexFrom(s, p, 1), LAMBDA k :
    IF k = 0 THEN s
    ELSE SubSeq(s, 1, k - 1) \o r \o ReplaceAll(SubSeq(s, k + Len(p), Len(s)), p, r))

\* A variant whose replacement has no space after the marker.
RECURSIVE ReplaceRGlued(_)
ReplaceRGlued(s) ==
  IF s = "" THEN ""
  ELSE IF Head(s) \in {"r", "R"} /\ Char(s, 2) \in NumCh
  THEN "CURR" \o ReplaceRGlued(Tail(s))
  ELSE Head(s) \o ReplaceRGlued(Tail(s))

\* re.sub(r'(?i)([ \n\t\r\f\v]*)?r(?=[0-9,]+\.?\d*)', r'\1CURR ', s) inside
\* one word: an r or R in front of a digit or a comma becomes 'CURR '.
RECURSIVE ReplaceR(_)
ReplaceR(s) ==
  IF s = "" THEN ""
  ELSE IF Head(s) \in {"r", "R"} /\ Char(s, 2) \in NumCh
  THEN "CURR " \o ReplaceR(Tail(s))
  ELSE Head(s) \o ReplaceR(Tail(s))

\* str.split() of a string whose only whitespace is the space.
RECURSIVE Split(_)
Split(s) ==
  IF s = "" THEN <<>>
  ELSE With(IndexFrom(s, " ", 1), LAMBDA k :
         IF k = 0 THEN <<s>>
         ELSE (IF k = 1 THEN <<>> ELSE <<SubSeq(s, 1, k - 1)>>)
              \o Split(SubSeq(s, k + 1, Len(s))))

\* The rupee sign and the backtick, which a TLA+ string cannot hold: both are
\* replaced alike, and one stand-in character is written for either.
RupeeSign == "$"

\* _normalize_currency on one word: the words it leaves.
NormalizeWord(w) ==
  Split(ReplaceR(ReplaceAll(ReplaceAll(w, RupeeSign, " CURR "), "Rs.", " CURR ")))

RECURSIVE NormalizeWords(_)
NormalizeWords(ws) ==
  IF ws = <<>> THEN <<>> ELSE NormalizeWord(ws[1]) \o NormalizeWords(Tail(ws))

\* Whether _normalize_currency leaves whitespace at the end of the text: the
\* text ended with whitespace, or with a currency symbol.
NormalizeTrail(ws, trail) ==
  \/ trail
  \/ ws # <<>> /\ (EndsWith(ws[Len(ws)], RupeeSign) \/ EndsWith(ws[Len(ws)], "Rs."))

normalize_currency(text) ==
  [ws |-> NormalizeWords(text.ws), trail |-> NormalizeTrail(text.ws, text.trail)]

EmptyText == [ws |-> <<>>, trail |-> FALSE]

\* _extract_tables: te = 0 when the read succeeds, else the page whose read
\* raises; the tables of the pages before it are kept.
extract_tables(f, available, te) ==
  IF ~ available THEN <<>>
  ELSE PageTables(f.pages, IF te = 0 THEN Len(f.pages) ELSE te - 1)

extract_tables_log(f, available, te) ==
  IF ~ available THEN <<"pdfplumber not available">>
  ELSE PageTablesLog(f.pages, IF te = 0 THEN Len(f.pages) ELSE te - 1)
       \o (IF te = 0 THEN <<>> ELSE <<"Table error">>)

\* _extract_blocks, likewise.
extract_blocks(f, be) ==
  PageBlocks(f.pages, IF be = 0 THEN Len(f.pages) ELSE be - 1)

extract_blocks_log(f, be) ==
  IF be = 0 THEN <<"Extracted blocks">> ELSE <<"Block error">>

\* A variant that keeps the text of the pages read before the error.
extract_text_partial(f, xe) ==
  normalize_currency([ws |-> PageWords(f.pages, IF xe = 0 THEN Len(f.pages) ELSE xe - 1),
                      trail |-> f.trail])

\* _extract_text: xe = 0 when the read succeeds.
extract_text(f, xe) ==
  IF xe = 0
  THEN normalize_currency([ws |-> PageWords(f.pages, Len(f.pages)), trail |-> f.trail])
  ELSE EmptyText

extract_text_log(f, xe) == IF xe = 0 THEN <<>> ELSE <<"Text error">>

Count(S) == Cardinality(S)

\* CCStatementParser(pdf_path).
Construct ==
  /\ pc = "new"
  /\ \E te, be, xe \in 0..Len(file.pages) :
       /\ pdfplumber \/ te = 0
       /\ faults + Count({x \in {<<1, te>>, <<2, be>>, <<3, xe>>} : x[2] # 0}) <= MaxFaults
       /\ tables' = extract_tables(file, pdfplumber, te)
       /\ blocks' = extract_blocks(file, be)
       /\ raw_text' = extract_text(file, xe)
       /\ debug_log' = extract_tables_log(file, pdfplumber, te)
                         \o extract_blocks_log(file, be)
                         \o extract_text_log(file, xe)
       /\ faults' = faults + Count({x \in {<<1, te>>, <<2, be>>, <<3, xe>>} : x[2] # 0})
  /\ pc' = "ready"
  /\ UNCHANGED <<provider, first, file, pdfplumber, fi, tier, value, source, result, alerts, tried>>

(* --- extract --- *)

Field == Fields[fi]

\* Line 385: whether the table tier is called.
RunsTableTier(tbls) == tbls # <<>>

\* A variant that calls the block tier whatever the table tier returned.
RunsBlockTierAlways(val, blks) == blks # <<>>

\* Line 388: whether the block tier is called.
RunsBlockTier(val, blks) == val = Null /\ blks # <<>>

\* Line 391: whether the global tier is called.
RunsGlobalTier(val) == val = Null

\* Lines 395-400: an amount that is still a str is converted, or dropped.
PostProcess(field_name, val) ==
  IF field_name \in {"amount_due", "credit_limit"} /\ val.kind = "str"
  THEN With(ParseFloat(DropCommas(val.s)), LAMBDA amt :
         IF amt # NoFloat THEN NumV(amt) ELSE Null)
  ELSE val

\* A variant that puts a new alert in front of the earlier ones.
StoreAlertFirst(val, src) ==
  /\ result' = Put(Put(result, Field, val), Field \o "_pattern", src)
  /\ alerts' = IF val = Null THEN <<Field \o " not found">> \o alerts ELSE alerts
  /\ value' = Null
  /\ source' = Null
  /\ tier' = "table"
  /\ IF fi < Len(Fields)
     THEN fi' = fi + 1 /\ pc' = "loop"
     ELSE fi' = fi /\ pc' = "score"

\* Lines 406-410, and the loop's step to the next field.
Store(val, src) ==
  /\ result' = Put(Put(result, Field, val), Field \o "_pattern", src)
  /\ alerts' = IF val = Null THEN Append(alerts, Field \o " not found") ELSE alerts
  /\ value' = Null
  /\ source' = Null
  /\ tier' = "table"
  /\ IF fi < Len(Fields)
     THEN fi' = fi + 1 /\ pc' = "loop"
     ELSE fi' = fi /\ pc' = "score"

\* A variant that keeps the alerts of an earlier call.
BeginKeepsAlerts ==
  /\ pc = "ready"
  /\ pc' = "loop"
  /\ result' = EmptyDict
  /\ alerts' = alerts
  /\ fi' = 1
  /\ tier' = "table"
  /\ value' = Null
  /\ source' = Null
  /\ tried' = <<>>
  /\ UNCHANGED <<provider, first, file, pdfplumber, tables, blocks, raw_text, debug_log, faults>>

\* parser.extract(): the dict and the list are created.
Begin ==
  /\ pc = "ready"
  /\ pc' = "loop"
  /\ result' = EmptyDict
  /\ alerts' = <<>>
  /\ fi' = 1
  /\ tier' = "table"
  /\ value' = Null
  /\ source' = Null
  /\ tried' = <<>>
  /\ UNCHANGED <<provider, first, file, pdfplumber, tables, blocks, raw_text, debug_log, faults>>

\* Lines 385-386.
TableStep ==
  /\ pc = "loop" /\ tier = "table"
  /\ IF RunsTableTier(tables)
     THEN \E hit \in {find_in_tables(tables, Field, FIELD_LABELS[Field])} :
             /\ value' = hit.val
             /\ source' = hit.src
             /\ tried' = Append(tried, [field |-> Field, tier |-> "table",
                                        got |-> hit.val # Null])
             /\ debug_log' = IF hit.val # Null
                             THEN Append(debug_log, Field \o ": table match")
                             ELSE debug_log
     ELSE UNCHANGED <<value, source, tried, debug_log>>
  /\ tier' = "block"
  /\ UNCHANGED <<provider, first, file, pdfplumber, pc, tables, blocks, raw_text, fi, result,
                 alerts, faults>>

\* Lines 388-389.
BlockStep ==
  /\ pc = "loop" /\ tier = "block"
  /\ IF RunsBlockTier(value, blocks)
     THEN \E hit \in {find_in_blocks(blocks, Field, FIELD_LABELS[Field])} :
             /\ value' = hit.val
             /\ source' = hit.src
             /\ tried' = Append(tried, [field |-> Field, tier |-> "block",
                                        got |-> hit.val # Null])
             /\ debug_log' =
                  IF hit.val = Null THEN debug_log
                  ELSE IF StartsWith(hit.src.s, "block:")
                  THEN Append(debug_log, Field \o ": block match")
                  ELSE Append(debug_log, Field \o ": nearby block match")
     ELSE UNCHANGED <<value, source, tried, debug_log>>
  /\ tier' = "global"
  /\ UNCHANGED <<provider, first, file, pdfplumber, pc, tables, blocks, raw_text, fi, result,
                 alerts, faults>>

\* Lines 391-410: the global tier, the post-processing, and the field's
\* entries in the result.
GlobalStep ==
  /\ pc = "loop" /\ tier = "global"
  /\ IF RunsGlobalTier(value)
     THEN \E hit \in {global_search(raw_text, Field)} :
             /\ tried' = Append(tried, [field |-> Field, tier |-> "global",
                                        got |-> hit.val # Null])
             /\ debug_log' = debug_log \o global_log(raw_text, Field, hit)
             /\ \E val \in {PostProcess(Field, hit.val)} : Store(val, hit.src)
     ELSE /\ UNCHANGED <<tried, debug_log>>
          /\ \E val \in {PostProcess(Field, value)} : Store(val, source)
  /\ UNCHANGED <<provider, first, file, pdfplumber, tables, blocks, raw_text, faults>>

\* A variant whose handler encloses the loop: the exception ends it, and the
\* failing field and those after it get no entry.
RaiseEndsLoop ==
  /\ pc = "loop"
  /\ faults < MaxFaults
  /\ \/ tier = "table" /\ RunsTableTier(tables)
     \/ tier = "block" /\ RunsBlockTier(value, blocks)
     \/ tier = "global" /\ RunsGlobalTier(value)
  /\ faults' = faults + 1
  /\ tried' = Append(tried, [field |-> Field, tier |-> tier, got |-> FALSE])
  /\ debug_log' = Append(debug_log, Field \o ": extraction failed with error")
  /\ pc' = "score"
  /\ UNCHANGED <<provider, first, file, pdfplumber, tables, blocks, raw_text, fi, tier, value,
                 source, result, alerts>>

\* Lines 403-404: the tier that is called raises; the handler logs it and the
\* field's entries are made from value and source as they stand.
Raise ==
  /\ pc = "loop"
  /\ faults < MaxFaults
  /\ \/ tier = "table" /\ RunsTableTier(tables)
     \/ tier = "block" /\ RunsBlockTier(value, blocks)
     \/ tier = "global" /\ RunsGlobalTier(value)
  /\ faults' = faults + 1
  /\ tried' = Append(tried, [field |-> Field, tier |-> tier, got |-> FALSE])
  /\ debug_log' = debug_log
                    \o (IF tier = "global" THEN <<Field \o ": trying global search">>
                        ELSE <<>>)
                    \o <<Field \o ": extraction failed with error">>
  /\ Store(value, source)
  /\ UNCHANGED <<provider, first, file, pdfplumber, tables, blocks, raw_text>>

\* dict.get(k).
Get(d, k) == IF k \in DOMAIN d THEN d[k] ELSE Null

\* A variant that counts the fields the result has an entry for.
fields_found_keys(res) == Cardinality({k \in FieldSet : k \in DOMAIN res})

\* Line 412.
fields_found(res) == Cardinality({k \in FieldSet : Get(res, k) # Null})

\* A variant whose first threshold is strict.
confidence_strict(n) == IF n > 4 THEN "high" ELSE IF n >= 2 THEN "medium" ELSE "low"

\* Line 414.
confidence(n) == IF n >= 4 THEN "high" ELSE IF n >= 2 THEN "medium" ELSE "low"

\* Lines 412-422.
Score ==
  /\ pc = "score"
  /\ result' =
       Put(Put(Put(Put(Put(result,
         "fields_extracted", fields_found(result)),
         "confidence", confidence(fields_found(result))),
         "extraction_method", "enhanced_regex_robust_rbl_fixed"),
         "alerts", alerts),
         "has_warnings", Len(alerts) > 0)
  /\ pc' = "done"
  /\ UNCHANGED <<provider, first, file, pdfplumber, tables, blocks, raw_text, debug_log, fi, tier,
                 value, source, alerts, tried, faults>>

\* extract is called a second time on the same parser: the first result is
\* with the caller, and the parser's fields are as the first call left them.
Again ==
  /\ pc = "done"
  /\ first = EmptyDict
  /\ first' = result
  /\ pc' = "ready"
  /\ UNCHANGED <<provider, file, pdfplumber, tables, blocks, raw_text, debug_log, fi, tier,
                 value, source, result, alerts, tried, faults>>

(* ----------------------------- documents ------------------------------ *)

\* A block as the reader gives it: its text and its bbox (x0, y0, x1, y1).
Blk(text, x0, y0) == [text |-> text, bbox |-> <<x0, y0, x0 + 200, y0 + 12>>]

\* The tables of a page.
NoTables == <<>>

SummaryTable ==
  << << << <<"Card", "No">>, <<"XXXX", "XXXX", "XXXX", "7381">> >>,
        << <<"Statement", "Period">>, <<"15/10/2021", "to", "17/09/2021">> >>,
        << <<"Payment", "Due", "Date">>, <<"04/11/2021">> >>,
        << <<"Total", "Amount", "Due">>, <<"78,708.38">> >> >> >>

HeaderTable ==
  << << << <<"Total", "Amount", "Due">>, <<"Credit", "Limit">> >>,
        << <<"Rs.78,708.38">>, <<"6,000,000">> >> >> >>

WideTable ==
  << << << <<"Credit", "Limit">>, <<>>, <<"(in", "Rs.)">>, <<"30">>, <<"60,000">> >> >> >>

TableLib == {NoTables, SummaryTable, HeaderTable, WideTable}

\* The blocks of a page.
NoBlocks == <<>>

SummaryBlocks ==
  << Blk(<<"Account", "Summary">>, 50, 100),
     Blk(<<"Card", "No:", "4000", "XXXX", "XXXX", "7381">>, 50, 120),
     Blk(<<"Statement", "Period">>, 50, 140),
     Blk(<<"17/09/2021", "-", "15/10/2021">>, 60, 160),
     Blk(<<"Total", "Amount", "Due">>, 50, 180),
     Blk(<<"Rs.78,708.38", "Dr">>, 300, 180),
     Blk(<<"Credit", "Limit", "Rs.", "60,000">>, 50, 200) >>

ImmediateBlocks ==
  << Blk(<<"Statement", "Date", "01/10/2021", "Payment", "Due", "Date:",
           "Immediate">>, 50, 100) >>

NoisyBlocks ==
  << Blk(<<"Reward", "Points", "Credit", "Limit", "9,000">>, 50, 100),
     Blk(<<"Statement", "Period:", "15/10/2021", "-", "17/09/2021">>, 50, 110),
     Blk(<<"Payment", "Due", "Date:", "Immediate", "October", "15,", "2021">>, 50, 120),
     Blk(<<"Domestic", "Transactions">>, 50, 140),
     Blk(<<"Total", "Dues">>, 50, 160),
     Blk(<<"1,250.00">>, 120, 180) >>

BlockLib == {NoBlocks, SummaryBlocks, ImmediateBlocks, NoisyBlocks}

\* The text of a page, and whether whitespace ends it.
Txt(ws, trail) == [ws |-> ws, trail |-> trail]

NoText == Txt(<<>>, FALSE)

FullText ==
  Txt(<<"Card", "No", "XXXX", "XXXX", "XXXX", "7381", "Statement", "Period",
        "15/10/2021", "to", "31/02/2021", "17/09/2021", "Payment", "Due", "Date:",
        "04/11/2021", "Total", "Amount", "Due", "Rs.78,708.38", "Credit", "Limit",
        "60,000">>, TRUE)

ImmediateText ==
  Txt(<<"Statement", "Date", "01/10/2021", "Payment", "Due", "Date:", "Immediate",
        "04/11/2021", "Total", "Credit", "Limit:", "6,000,000", "Total", "Dues",
        "r1,250">>, TRUE)

SummaryText ==
  Txt(<<"Account", "Summary", "Total", "Amount", "Due", "$78,708.38", "Card",
        "No:", "7381">>, FALSE)

TextLib == {NoText, FullText, ImmediateText, SummaryText}

\* The one-page files, and two files of two pages.
OnePage(t, b, x) ==
  [pages |-> << [tables |-> t, blocks |-> b, text |-> x.ws] >>, trail |-> x.trail]

TwoPages(t1, b1, x1, t2, b2, x2) ==
  [pages |-> << [tables |-> t1, blocks |-> b1, text |-> x1.ws],
                [tables |-> t2, blocks |-> b2, text |-> x2.ws] >>,
   trail |-> x2.trail]

Files ==
  {OnePage(t, b, x) : t \in TableLib, b \in BlockLib, x \in TextLib}
  \cup {TwoPages(SummaryTable, ImmediateBlocks, ImmediateText,
                 HeaderTable, SummaryBlocks, SummaryText),
        TwoPages(NoTables, NoisyBlocks, SummaryText,
                 WideTable, ImmediateBlocks, FullText)}

\* pdfplumber is missing only where a file of two pages is read.
Installed(f) == IF Len(f.pages) > 1 THEN BOOLEAN ELSE {TRUE}

(* --------------------------- specification ---------------------------- *)

Init ==
  /\ file \in Files
  /\ pdfplumber \in Installed(file)
  /\ pc = "new"
  /\ tables = <<>>
  /\ blocks = <<>>
  /\ raw_text = EmptyText
  /\ debug_log = <<>>
  /\ fi = 1
  /\ tier = "table"
  /\ value = Null
  /\ source = Null
  /\ result = EmptyDict
  /\ alerts = <<>>
  /\ tried = <<>>
  /\ faults = 0
  /\ first = EmptyDict
  /\ provider = Null

Next ==
  \/ Construct
  \/ Begin
  \/ TableStep
  \/ BlockStep
  \/ GlobalStep
  \/ Raise
  \/ Score

Spec == Init /\ [][Next]_vars

(* --------------------------- extract, twice --------------------------- *)

\* Blocks the reader gives out of reading order.
ShuffledBlocks ==
  << Blk(<<"60,000">>, 60, 220),
     Blk(<<"Credit", "Limit">>, 50, 200),
     Blk(<<"Rs.78,708.38", "Dr">>, 300, 180),
     Blk(<<"Total", "Amount", "Due">>, 50, 180),
     Blk(<<"Account", "Summary">>, 50, 100) >>

\* A label whose nearest block in its column is a cashback line, and whose
\* amount stands in another column.
RewardBlocks ==
  << Blk(<<"Total", "Amount", "Due">>, 50, 100),
     Blk(<<"Cashback", "5,000.00">>, 60, 120),
     Blk(<<"Rs.78,708.38">>, 300, 140) >>

\* Two summary headers before the transaction section, the first of them in a
\* block that also holds the credit limit.
TwoSummaryBlocks ==
  << Blk(<<"Account", "Summary", "Credit", "Limit", "60,000">>, 50, 100),
     Blk(<<"Card", "No:", "4000", "XXXX", "XXXX", "7381">>, 50, 110),
     Blk(<<"Statement", "Period">>, 50, 120),
     Blk(<<"17/09/2021", "-", "15/10/2021">>, 60, 130),
     Blk(<<"Total", "Amount", "Due">>, 50, 140),
     Blk(<<"Rs.78,708.38", "Dr">>, 60, 150),
     Blk(<<"Payment", "Summary">>, 50, 160),
     Blk(<<"Domestic", "Transactions">>, 50, 170) >>

\* A label whose value stands six blocks after it.
FarBlocks ==
  << Blk(<<"Credit", "Limit">>, 50, 100),
     Blk(<<"Dear", "Customer">>, 50, 110),
     Blk(<<"Thank", "you">>, 50, 120),
     Blk(<<"for", "banking">>, 50, 130),
     Blk(<<"with", "us">>, 50, 140),
     Blk(<<"Regards">>, 50, 150),
     Blk(<<"60,000">>, 50, 160) >>

\* The files extract is run on twice.
TwiceFiles ==
  {OnePage(t, b, x) : t \in {NoTables, HeaderTable, WideTable},
                      b \in {NoBlocks, NoisyBlocks, ShuffledBlocks, RewardBlocks,
                             TwoSummaryBlocks, FarBlocks},
                      x \in {ImmediateText, SummaryText}}

TwiceInit ==
  /\ file \in TwiceFiles
  /\ pdfplumber = TRUE
  /\ pc = "new"
  /\ tables = <<>>
  /\ blocks = <<>>
  /\ raw_text = EmptyText
  /\ debug_log = <<>>
  /\ fi = 1
  /\ tier = "table"
  /\ value = Null
  /\ source = Null
  /\ result = EmptyDict
  /\ alerts = <<>>
  /\ tried = <<>>
  /\ faults = 0
  /\ first = EmptyDict
  /\ provider = Null

TwiceNext ==
  \/ Next
  \/ Again

TwiceSpec == TwiceInit /\ [][TwiceNext]_vars

(* ---------------------- the normalizer on its own --------------------- *)

\* The words the texts given to _normalize_currency are made of.
NormWords ==
  {"Total", "$100", "Rs.", "Rs.5", "r1,250", "Number1234", "customer,", "R$s.",
   "CURR", "Dr"}

\* The most words such a text has.
MaxWords == 2

NormTexts ==
  {Txt(ws, trail) : ws \in UNION {[1..n -> NormWords] : n \in 0..MaxWords},
                    trail \in BOOLEAN}

NormFiles == {OnePage(NoTables, NoBlocks, x) : x \in NormTexts}

NormInit ==
  /\ file \in NormFiles
  /\ pdfplumber = TRUE
  /\ pc = "new"
  /\ tables = <<>>
  /\ blocks = <<>>
  /\ raw_text = EmptyText
  /\ debug_log = <<>>
  /\ fi = 1
  /\ tier = "table"
  /\ value = Null
  /\ source = Null
  /\ result = EmptyDict
  /\ alerts = <<>>
  /\ tried = <<>>
  /\ faults = 0
  /\ first = EmptyDict
  /\ provider = Null

\* _normalize_currency applied to the text it returned.
Renormalize ==
  /\ pc = "ready"
  /\ pc' = "normalized"
  /\ raw_text' = normalize_currency(raw_text)
  /\ UNCHANGED <<provider, first, file, pdfplumber, tables, blocks, debug_log, fi, tier, value,
                 source, result, alerts, tried, faults>>

NormNext ==
  \/ Construct
  \/ Renormalize

NormSpec == NormInit /\ [][NormNext]_vars

(* ----------------------------- properties ----------------------------- *)

Range(seq) == {seq[i] : i \in DOMAIN seq}

TierRank == [table |-> 1, block |-> 2, global |-> 3]

FieldIndex(f) == CHOOSE i \in DOMAIN Fields : Fields[i] = f

\* The tier calls made for one field, in the order they were made.
Calls(f) == SelectSeq(tried, LAMBDA e : e.field = f)

Call(f, t, got) == [field |-> f, tier |-> t, got |-> got]

\* C1: the tier calls are made field by field; for one field they are made in
\* the order table, block, global, and a call that returned a value is the
\* last one made for its field.
C1_TierOrder ==
  \A i, j \in DOMAIN tried :
    i < j =>
      /\ FieldIndex(tried[i].field) <= FieldIndex(tried[j].field)
      /\ tried[i].field = tried[j].field =>
           /\ TierRank[tried[i].tier] < TierRank[tried[j].tier]
           /\ ~ tried[i].got

\* A finished run in which one field took all three tiers and got its value
\* from the last, and another got its value from the table tier alone.
C1_Witness ==
  /\ pc = "done" /\ faults = 0
  /\ \E f \in FieldSet :
       Calls(f) = <<Call(f, "table", FALSE), Call(f, "block", FALSE),
                    Call(f, "global", TRUE)>>
  /\ \E g \in FieldSet : Calls(g) = <<Call(g, "table", TRUE)>>

IsNum(v) == v.kind = "num"

\* C2, as the specification states it: in a returned result amount_due is
\* null or a number in (50, 1000000), and credit_limit is null or a number in
\* (1000, 5000000), in (5000, 1000000) when the fallback produced it.
C2_AmountWindows ==
  pc = "done" =>
    /\ \/ result.amount_due = Null
       \/ /\ IsNum(result.amount_due)
          /\ Between(AmountMin, result.amount_due.n, AmountMax)
    /\ \/ result.credit_limit = Null
       \/ /\ IsNum(result.credit_limit)
          /\ IF result.credit_limit_pattern = StrV("global-fallback")
             THEN Between(FallbackLimitMin, result.credit_limit.n, FallbackLimitMax)
             ELSE Between(LimitMin, result.credit_limit.n, LimitMaxGlobal)

\* A returned result whose credit_limit, read from a table, is 6,000,000.
C2_LimitAboveWindow ==
  /\ pc = "done"
  /\ result.credit_limit = NumV(Flt(6000000, 0))
  /\ result.credit_limit_pattern = StrV("table:credit\\s+limit")

\* C3: the grade of each count 0..5 is high exactly from 4 up, medium exactly
\* for 2 and 3, low exactly below 2, and a returned result carries the grade
\* of its fields_extracted.
C3_ConfidenceGrades ==
  /\ \A n \in 0..Len(Fields) :
       /\ confidence(n) \in {"high", "medium", "low"}
       /\ confidence(n) = "high" <=> n >= 4
       /\ confidence(n) = "medium" <=> (2 <= n /\ n < 4)
       /\ confidence(n) = "low" <=> n < 2
  /\ pc = "done" =>
       /\ result.confidence \in {"high", "medium", "low"}
       /\ result.confidence = "high" <=> result.fields_extracted >= 4
       /\ result.confidence = "medium" <=>
            (2 <= result.fields_extracted /\ result.fields_extracted < 4)
       /\ result.confidence = "low" <=> result.fields_extracted < 2

\* A returned result with exactly four fields, graded high.
C3_Witness ==
  pc = "done" /\ result.fields_extracted = 4 /\ result.confidence = "high"

LimitLabel(ws) == AnyLabel(LowerAll(ws), FIELD_LABELS.credit_limit)

\* No table cell, no block and not the text holds a credit-limit label.
NoLimitEvidence ==
  /\ \A t \in Range(tables) : \A r \in DOMAIN t : \A c \in DOMAIN t[r] :
       ~ LimitLabel(t[r][c])
  /\ \A b \in Range(blocks) : ~ LimitLabel(b.text)
  /\ ~ LimitLabel(raw_text.ws)

OtherFourResolved ==
  \A f \in FieldSet \ {"credit_limit"} : result[f] # Null

AlertsOf(res, fs) ==
  LET nulls == SelectSeq(fs, LAMBDA f : res[f] = Null)
  IN [i \in DOMAIN nulls |-> nulls[i] \o " not found"]

\* C5: the alerts are "<field> not found" for exactly the fields stored as
\* null, once each, in the field order; so they are in the returned result.
C5_Alerts ==
  /\ pc \in {"loop", "score"} =>
       alerts = AlertsOf(result, SelectSeq(Fields, LAMBDA f : f \in DOMAIN result))
  /\ pc = "done" => result.alerts = AlertsOf(result, Fields)

\* A returned result with a resolved field between two null ones.
C5_Witness ==
  /\ pc = "done"
  /\ \E i, j, k \in DOMAIN Fields :
       /\ i < j /\ j < k
       /\ result[Fields[i]] = Null
       /\ result[Fields[j]] # Null
       /\ result[Fields[k]] = Null
  /\ Len(result.alerts) >= 2

ResultKeys ==
  FieldSet \cup {f \o "_pattern" : f \in FieldSet}
  \cup {"fields_extracted", "confidence", "extraction_method", "alerts", "has_warnings"}

\* C6: extract, until it returns, is at a tier of one of the five fields or
\* at the scoring, where its next step can be taken; and the result it
\* returns is complete: fields_extracted is the number of non-null fields,
\* fields_extracted + len(alerts) = 5, has_warnings tells whether there are
\* alerts, and fewer than two fields give confidence low.
C6_WellFormed ==
  /\ pc \in {"new", "ready", "loop", "score", "done"}
  /\ pc = "loop" =>
       /\ fi \in DOMAIN Fields
       /\ tier \in {"table", "block", "global"}
       /\ DOMAIN result = {Fields[i] : i \in 1..(fi - 1)}
                            \cup {Fields[i] \o "_pattern" : i \in 1..(fi - 1)}
  /\ pc = "score" => FieldSet \subseteq DOMAIN result
  /\ pc = "done" =>
       /\ DOMAIN result = ResultKeys
       /\ result.fields_extracted = Cardinality({f \in FieldSet : result[f] # Null})
       /\ result.fields_extracted \in 0..5
       /\ result.fields_extracted + Len(result.alerts) = 5
       /\ result.has_warnings <=> result.alerts # <<>>
       /\ result.fields_extracted < 2 => result.confidence = "low"

\* A returned result with no field resolved.
C6_Witness ==
  /\ pc = "done"
  /\ result.fields_extracted = 0
  /\ result.confidence = "low"
  /\ result.has_warnings
  /\ Len(result.alerts) = 5

\* Whether the handler of extract logged an exception for field f.
Failed(f) == (f \o ": extraction failed with error") \in Range(debug_log)

\* What the loop body gives a field when nothing raises.
Resolve(f) ==
  LET t == IF RunsTableTier(tables)
           THEN find_in_tables(tables, f, FIELD_LABELS[f]) ELSE NotFound
      b == IF RunsBlockTier(t.val, blocks)
           THEN find_in_blocks(blocks, f, FIELD_LABELS[f]) ELSE t
      g == IF RunsGlobalTier(b.val) THEN global_search(raw_text, f) ELSE b
  IN PostProcess(f, g.val)

\* C7: every exception a tier raised is in the debug log under its field; in
\* a returned result every field has its entry, a field whose tier raised is
\* null and has its alert, and every other field has the value it gets when
\* nothing raises.
C7_FieldFailure ==
  /\ Cardinality({f \in FieldSet : Failed(f)})
       = faults - Cardinality(Range(debug_log) \cap {"Table error", "Block error", "Text error"})
  /\ pc = "done" =>
       \A f \in FieldSet :
         /\ f \in DOMAIN result
         /\ Failed(f) =>
              /\ result[f] = Null
              /\ (f \o " not found") \in Range(result.alerts)
         /\ ~ Failed(f) => result[f] = Resolve(f)

\* A returned result in which a field failed and the fields before and after
\* it were resolved.
C7_Witness ==
  /\ pc = "done"
  /\ Failed("statement_period")
  /\ result.statement_period = Null
  /\ result.card_last_4 # Null
  /\ result.due_date # Null

ReadErrors == {"Table error", "Block error", "Text error"}

ReadFailed == Range(debug_log) \cap ReadErrors # {}

AllPages == Len(file.pages)

ImmediatePhrase(ws) ==
  LET lw == LowerAll(ws)
  IN \E i \in DOMAIN lw :
       /\ i + 3 <= Len(lw)
       /\ EndsWith(lw[i], "payment")
       /\ lw[i + 1] = "due"
       /\ lw[i + 2] = "date:"
       /\ StartsWith(lw[i + 3], "immediate")

DueLabel(ws) == AnyLabel(LowerAll(ws), FIELD_LABELS.due_date)

FromTier(f, name) ==
  /\ result[f \o "_pattern"].kind = "str"
  /\ StartsWith(result[f \o "_pattern"].s, name)

\* C9, as the specification states it: a due_date resolved from blocks whose
\* due-date labels all come as 'Payment Due Date: Immediate', or from a text
\* that holds the phrase, is "Immediate".
C9_ImmediateWins ==
  pc = "done" =>
    /\ ( /\ FromTier("due_date", "block")
         /\ \E b \in Range(blocks) : ImmediatePhrase(b.text)
         /\ \A b \in Range(blocks) : DueLabel(b.text) => ImmediatePhrase(b.text) )
       => result.due_date = StrV("Immediate")
    /\ ( FromTier("due_date", "global") /\ ImmediatePhrase(raw_text.ws) )
       => result.due_date = StrV("Immediate")

\* A returned result whose due_date is the date that stands before the
\* phrase in the one block that holds it.
C9_DateBeforeImmediate ==
  /\ pc = "done"
  /\ Len(blocks) = 1
  /\ ImmediatePhrase(blocks[1].text)
  /\ result.due_date = StrV("01/10/2021")
  /\ result.due_date_pattern = StrV("block:payment\\s+due\\s+date")

\* A period 'd1 to d2' of two valid dd/mm/yyyy dates.
IsDatePair(p) ==
  /\ Len(p) = 3 /\ p[2] = "to"
  /\ \A i \in {1, 3} : DateLen(p[i], 1) = Len(p[i]) /\ DateValid(p[i])

\* C10, as the specification states it: a statement_period of two valid
\* dates has the earlier date first, whichever tier resolved it.
C10_EarlierFirst ==
  (pc = "done" /\ result.statement_period.kind = "str") =>
    LET p == Split(result.statement_period.s)
    IN IsDatePair(p) => DateKey(p[1]) <= DateKey(p[3])

\* A returned result whose statement_period, read from a block, has the two
\* dates in the order of the source, the later one first.
C10_SourceOrderKept ==
  /\ pc = "done"
  /\ result.statement_period = StrV("15/10/2021 to 17/09/2021")
  /\ result.statement_period_pattern = StrV("block:statement\\s+period")

(* --- the normalizer --- *)

\* The text of the file as the reader returns it, before normalization.
FileText == [ws |-> PageWords(file.pages, Len(file.pages)), trail |-> file.trail]

\* Whether the text was read and normalized without an error.
TextRead == pc \in {"ready", "normalized"} /\ "Text error" \notin Range(debug_log)

\* C11: the normalizer is idempotent: applied to a text it returned, it
\* returns that text unchanged.
C11_Idempotent == [][Renormalize => raw_text' = raw_text]_vars

\* A text the normalizer changed when it was read, normalized a second time.
C11_Witness ==
  /\ pc = "normalized"
  /\ TextRead
  /\ raw_text # FileText
  /\ "CURR" \in Range(raw_text.ws)

\* Whether a word holds a currency symbol.
HasCurrencySymbol(w) == Contains(w, RupeeSign) \/ Contains(w, "Rs.")

\* A bare r in front of a numeric token: the word is an r and then a number.
BareR(w) == Len(w) >= 2 /\ Char(w, 1) \in {"r", "R"} /\ Char(w, 2) \in NumCh

\* A text that holds no currency symbol, no bare r before a number and no
\* Dr or Cr; its whitespace is single spaces by construction.
NoArtifacts(ws) ==
  \A i \in DOMAIN ws :
    ~ HasCurrencySymbol(ws[i]) /\ ~ BareR(ws[i]) /\ ws[i] \notin {"Dr", "Cr"}

\* C19, as the specification states it: a text without currency symbols,
\* bare r before a number, or Dr/Cr is returned unchanged by the normalizer,
\* also where a word ends in r and digits follow it directly.
C19_OnlyArtifactsAltered ==
  (pc = "ready" /\ TextRead /\ NoArtifacts(FileText.ws)) => raw_text = FileText

\* The word 'Number1234', whose r ends the letters and is followed by
\* digits, normalized: the r has become the currency marker.
C19_WordFinalRAltered ==
  /\ pc = "ready"
  /\ TextRead
  /\ FileText.ws = <<"Number1234">>
  /\ raw_text.ws = <<"NumbeCURR", "1234">>

(* --- extract, twice --- *)

\* Whether no call of a tier has raised an exception.
NoTierRaised ==
  \A i \in DOMAIN debug_log : ~ EndsWith(debug_log[i], ": extraction failed with error")

\* C12: a second call of extract on the same evidence returns the result of
\* the first call, key by key, when no tier raises an exception in either
\* call; and once constructed, tables, blocks and the normalized text are
\* left as they are by every step of extract.
C12_SameResultTwice ==
  /\ [](pc = "done" /\ first # EmptyDict /\ NoTierRaised => result = first)
  /\ [][pc # "new" => /\ tables' = tables
                      /\ blocks' = blocks
                      /\ raw_text' = raw_text]_vars

\* A second call has returned, for a document whose blocks the block tier
\* had to sort and whose first result has both values and alerts.
C12_Witness ==
  /\ pc = "done"
  /\ first # EmptyDict
  /\ NoTierRaised
  /\ SortBlocks(blocks) # blocks
  /\ first.alerts # <<>>
  /\ first.fields_extracted >= 2

(* --- card_last_4 --- *)

\* The maximal runs of digits of one word, left to right.
RECURSIVE DigitRuns(_, _)
DigitRuns(w, i) ==
  IF i > Len(w) THEN <<>>
  ELSE IF Char(w, i) \in DigitCh
  THEN <<SubSeq(w, i, RunEnd(w, i, DigitCh))>> \o DigitRuns(w, RunEnd(w, i, DigitCh) + 1)
  ELSE DigitRuns(w, i + 1)

RECURSIVE AllDigitRuns(_)
AllDigitRuns(ws) ==
  IF ws = <<>> THEN <<>> ELSE DigitRuns(ws[1], 1) \o AllDigitRuns(Tail(ws))

\* The texts the digit-string extractor is given: every block's text and
\* every table cell.
CandidateTexts ==
  {blocks[i].text : i \in DOMAIN blocks}
  \cup UNION {UNION {Range(tables[t][r]) : r \in DOMAIN tables[t]} : t \in DOMAIN tables}

\* Whether a text holds several runs of four digits and no longer run.
SeveralRuns(ws) ==
  /\ Len(SelectSeq(AllDigitRuns(ws), LAMBDA g : Len(g) = 4)) >= 2
  /\ \A i \in DOMAIN AllDigitRuns(ws) : Len(AllDigitRuns(ws)[i]) <= 4

LastRun(ws) ==
  SelectSeq(AllDigitRuns(ws), LAMBDA g : Len(g) = 4)
    [Len(SelectSeq(AllDigitRuns(ws), LAMBDA g : Len(g) = 4))]

IsFourDigits(v) == v.kind = "str" /\ Len(v.s) = 4 /\ IsDigits(v.s, 1, 4)

\* C13: the card_last_4 of a returned result is null or a string of exactly
\* four digits; and the digit-string extractor, given a text with several
\* runs of four digits, returns the last of them.
C13_CardLastFour ==
  /\ pc = "done" => (result.card_last_4 = Null \/ IsFourDigits(result.card_last_4))
  /\ pc = "ready" =>
       \A c \in CandidateTexts :
         SeveralRuns(c) => extract_by_type("card_last_4", c) = StrV(LastRun(c))

\* A returned result whose card_last_4 the block tier read from a block that
\* holds two different runs of four digits.
C13_Witness ==
  /\ pc = "done"
  /\ result.card_last_4_pattern = StrV("block:card\\s+(?:no|number)")
  /\ \E i \in DOMAIN blocks :
       /\ SeveralRuns(blocks[i].text)
       /\ AllDigitRuns(blocks[i].text)[1] # LastRun(blocks[i].text)
       /\ result.card_last_4 = StrV(LastRun(blocks[i].text))

(* ------------------------- llm_extractor.py --------------------------- *)

Providers == {"groq", "gemini"}

\* What a provider may answer for one key of its schema (lines 78-82 and
\* 114-118): JSON null, or a value of the property's type.
LLMValues(k) ==
  IF k \in {"amount_due", "credit_limit"}
  THEN {Null, NumV(Flt(78708, 38))}
  ELSE {Null, StrV("7381")}

\* Lines 99 and 139: json.loads of the provider's answer. The schema names
\* the five properties and requires none of them.
LLMAnswers ==
  UNION {{a \in [ks -> {Null, NumV(Flt(78708, 38)), StrV("7381")}] :
            \A k \in ks : a[k] \in LLMValues(k)} : ks \in SUBSET FieldSet}

\* Lines 54-55.
filled(res) == Cardinality({k \in FieldSet : Get(res, k) # Null})

\* Line 56.
llm_confidence(n) == IF n >= 4 THEN "high" ELSE IF n >= 2 THEN "medium" ELSE "low"

\* LLMExtractor.extract, lines 43-59, with a provider it knows.
LLMExtract ==
  /\ pc = "new"
  /\ provider \in Providers
  /\ \E answer \in LLMAnswers :
       result' = Put(Put(Put(answer,
                   "extraction_method", "llm_" \o provider),
                   "confidence", llm_confidence(filled(answer))),
                   "fields_extracted", filled(answer))
  /\ pc' = "done"
  /\ UNCHANGED <<provider, first, file, pdfplumber, tables, blocks, raw_text, debug_log,
                 fi, tier, value, source, alerts, tried, faults>>

\* LLMExtractor.extract, lines 47-48: any other provider raises ValueError.
LLMUnknownProvider ==
  /\ pc = "new"
  /\ provider \notin Providers
  /\ pc' = "raised"
  /\ UNCHANGED <<provider, first, file, pdfplumber, tables, blocks, raw_text, debug_log,
                 fi, tier, value, source, result, alerts, tried, faults>>

\* LLMExtractor.__init__, lines 11-13, given any provider name.
LLMInit ==
  /\ provider \in Providers \cup {"openai"}
  /\ file \in {OnePage(NoTables, NoBlocks, x) : x \in {NoText, SummaryText}}
  /\ pdfplumber = TRUE
  /\ pc = "new"
  /\ tables = <<>>
  /\ blocks = <<>>
  /\ raw_text = EmptyText
  /\ debug_log = <<>>
  /\ fi = 1
  /\ tier = "table"
  /\ value = Null
  /\ source = Null
  /\ result = EmptyDict
  /\ alerts = <<>>
  /\ tried = <<>>
  /\ faults = 0
  /\ first = EmptyDict

LLMNext == LLMExtract \/ LLMUnknownProvider

LLMSpec == LLMInit /\ [][LLMNext]_vars

\* C14: the result of the LLM path holds every key the result of the regex
\* path holds: the five fields, the five <field>_pattern keys,
\* fields_extracted, confidence, extraction_method, alerts and has_warnings.
C14_SameShape == pc = "done" /\ provider \in Providers => ResultKeys \subseteq DOMAIN result

\* The provider answered all five fields, and the returned result has no
\* <field>_pattern key, no alerts and no has_warnings.
C14_NoPatternNoAlerts ==
  /\ pc = "done"
  /\ provider \in Providers
  /\ result.fields_extracted = 5
  /\ result.confidence = "high"
  /\ DOMAIN result = FieldSet \cup {"extraction_method", "confidence", "fields_extracted"}

(* --- noise blocks --- *)

\* Whether the block tier has just returned the value of the field at hand.
FromBlockTier ==
  /\ pc = "loop" /\ tier = "global"
  /\ value # Null
  /\ StartsWith(source.s, "block")

\* C15: no value the block tier returns is extracted from the text of a
\* noise block, neither as the label block nor as a look-ahead block: some
\* block that is not noise yields the value.
C15_NoNoiseEvidence ==
  FromBlockTier =>
    \E i \in DOMAIN blocks :
      /\ ~ IsNoise(blocks[i].text)
      /\ extract_by_type(Field, blocks[i].text) = value

\* The block tier returned, tagged block-near, an amount that only a
\* cashback block holds.
C15_NoiseLookAhead ==
  /\ FromBlockTier
  /\ Field = "amount_due"
  /\ source = StrV("block-near:total\\s+amount\\s+due")
  /\ value = NumV(Flt(5000, 0))
  /\ \A i \in DOMAIN blocks :
       extract_by_type(Field, blocks[i].text) = value => IsNoise(blocks[i].text)

(* --- the summary zone --- *)

\* The 0-based index of the first block from idx on whose text matches one of
\* the patterns, or -1.
RECURSIVE FirstMatching(_, _, _)
FirstMatching(sorted_blocks, pats, idx) ==
  IF idx >= Len(sorted_blocks) THEN -1
  ELSE IF AnyLabel(LowerAll(sorted_blocks[idx + 1].text), pats) THEN idx
  ELSE FirstMatching(sorted_blocks, pats, idx + 1)

\* The zone as the claim states it.
FirstHeaderZone(sorted_blocks) ==
  << IF FirstMatching(sorted_blocks, SUMMARY_HEADERS, 0) = -1 THEN 0
     ELSE Max(0, FirstMatching(sorted_blocks, SUMMARY_HEADERS, 0) - 5),
     IF FirstMatching(sorted_blocks, TRANSACTION_ANCHORS, 0) = -1
     THEN Len(sorted_blocks) - 1
     ELSE FirstMatching(sorted_blocks, TRANSACTION_ANCHORS, 0) >>

\* C16: _find_summary_zone returns start = max(0, i - 5) for the index i of
\* the first summary-header block (0 if there is none) and end = the index
\* of the first transaction-anchor block (the last index if there is none);
\* a later summary header does not change start.
C16_ZoneFromFirstHeader ==
  pc = "ready" =>
    find_summary_zone(SortBlocks(blocks)) = FirstHeaderZone(SortBlocks(blocks))

\* Two summary headers stand before the anchor, at indices 0 and 6: the zone
\* starts at 1, and the block tier does not reach the credit limit of the
\* block at index 0.
C16_LaterHeaderMovesStart ==
  /\ pc = "done"
  /\ FirstMatching(SortBlocks(blocks), SUMMARY_HEADERS, 0) = 0
  /\ FirstMatching(SortBlocks(blocks), SUMMARY_HEADERS, 1) = 6
  /\ find_summary_zone(SortBlocks(blocks)) = <<1, 7>>
  /\ extract_by_type("credit_limit", SortBlocks(blocks)[1].text) = NumV(Flt(60000, 0))
  /\ ~ \E i \in DOMAIN tried : tried[i].field = "credit_limit" /\ tried[i].tier = "block"
                                /\ tried[i].got

(* --- the table tier's candidates --- *)

\* The candidate list as the claim states it: the cells right of column c in
\* row r, then the cell at column c of each later row that has one.
RightOf(table, r, c) == [i \in 1..(Len(table[r]) - c) |-> table[r][c + i]]

LaterRows(table, r, c) ==
  SelectSeq([i \in 1..(Len(table) - r) |-> r + i], LAMBDA q : c <= Len(table[q]))

ClaimedCands(table, r, c) ==
  RightOf(table, r, c)
    \o [i \in DOMAIN LaterRows(table, r, c) |-> table[LaterRows(table, r, c)[i]][c]]

\* The cells of self.tables, as <<table, row, column>>, and their scan order.
Cells ==
  UNION {UNION {{<<t, r, c>> : c \in DOMAIN tables[t][r]} : r \in DOMAIN tables[t]} :
           t \in DOMAIN tables}

ScannedBefore(x, y) ==
  \/ x[1] < y[1]
  \/ x[1] = y[1] /\ x[2] < y[2]
  \/ x[1] = y[1] /\ x[2] = y[2] /\ x[3] < y[3]

\* Whether the cell is a label of the field at hand and the k-th of its first
\* three candidates is the first that validates.
FirstValidAt(x, k) ==
  /\ AnyLabel(LowerAll(tables[x[1]][x[2]][x[3]]), FIELD_LABELS[Field])
  /\ k \in 1..3
  /\ k <= Len(ClaimedCands(tables[x[1]], x[2], x[3]))
  /\ extract_by_type(Field, ClaimedCands(tables[x[1]], x[2], x[3])[k]) # Null
  /\ \A j \in 1..(k - 1) :
       extract_by_type(Field, ClaimedCands(tables[x[1]], x[2], x[3])[j]) = Null

\* C17: the value _find_in_tables returns is the first that validates among
\* the first three candidates (right of the label cell, then below it) of the
\* first label cell in table, row, column order that has such a candidate;
\* and it returns none when no label cell has one.
C17_FirstThreeCandidates ==
  (pc = "loop" /\ tier = "block" /\ tables # <<>>) =>
    IF value # Null
    THEN \E x \in Cells : \E k \in 1..3 :
           /\ FirstValidAt(x, k)
           /\ value = extract_by_type(Field, ClaimedCands(tables[x[1]], x[2], x[3])[k])
           /\ StartsWith(source.s, "table:")
           /\ \A y \in Cells : ScannedBefore(y, x) => \A j \in 1..3 : ~ FirstValidAt(y, j)
    ELSE \A x \in Cells : \A k \in 1..3 : ~ FirstValidAt(x, k)

\* The table tier returned the amount from the cell below the label, the
\* second candidate, after the cell right of the label gave nothing.
C17_Witness ==
  /\ pc = "loop" /\ tier = "block" /\ tables # <<>>
  /\ Field = "amount_due"
  /\ value = NumV(Flt(78708, 38))
  /\ source = StrV("table:total\\s+amount\\s+due")
  /\ FirstValidAt(<<1, 1, 1>>, 2)
  /\ Len(RightOf(tables[1], 1, 1)) = 1

(* --- the block tier's look-ahead --- *)

\* What the value extractor of the field at hand yields from the i-th block
\* in reading order.
Yields(i) == extract_by_type(Field, SortBlocks(blocks)[i].text)

SameColumn(i, j) ==
  Abs(SortBlocks(blocks)[j].bbox[1] - SortBlocks(blocks)[i].bbox[1]) < 100

IsLabelBlock(i) ==
  /\ AnyLabel(LowerAll(SortBlocks(blocks)[i].text), FIELD_LABELS[Field])
  /\ ~ IsNoise(SortBlocks(blocks)[i].text)

\* Whether j is the first block among the five after the label block i that
\* stands in its column and yields a value.
FirstNear(i, j) ==
  /\ j \in (i + 1)..Min(i + 5, Len(blocks))
  /\ SameColumn(i, j)
  /\ Yields(j) # Null
  /\ \A q \in (i + 1)..(j - 1) : ~ (SameColumn(i, q) /\ Yields(q) # Null)

\* C18: a value tagged block-near comes from the first block among the five
\* after a label block (to the end of the list) whose left-x is less than 100
\* from the label block's and whose text yields a value, the label block's
\* own text yielding none; a value tagged block comes from the label block's
\* own text.
C18_LookAhead ==
  FromBlockTier =>
    IF StartsWith(source.s, "block-near:")
    THEN \E i \in DOMAIN blocks :
           /\ IsLabelBlock(i)
           /\ Yields(i) = Null
           /\ \E j \in DOMAIN blocks : FirstNear(i, j) /\ Yields(j) = value
    ELSE \E i \in DOMAIN blocks : IsLabelBlock(i) /\ Yields(i) = value

\* The block tier returned a value tagged block-near after passing over a
\* nearer block that yields a value but stands in another column.
C18_Witness ==
  /\ FromBlockTier
  /\ StartsWith(source.s, "block-near:")
  /\ \E i, j \in DOMAIN blocks :
       /\ IsLabelBlock(i) /\ Yields(i) = Null
       /\ FirstNear(i, j) /\ Yields(j) = value
       /\ \E q \in (i + 1)..(j - 1) : ~ SameColumn(i, q) /\ Yields(q) \notin {Null, value}

(* --- the origin tags --- *)

\* The tier an origin tag names.
TagTier(tag) ==
  IF tag.kind # "str" THEN "none"
  ELSE IF StartsWith(tag.s, "table:") THEN "table"
  ELSE IF StartsWith(tag.s, "block:") \/ StartsWith(tag.s, "block-near:") THEN "block"
  ELSE IF tag.s \in {"global", "global-fallback"} THEN "global"
  ELSE "none"

\* The tiers that returned a value for the field.
Producers(f) == {i \in DOMAIN tried : tried[i].field = f /\ tried[i].got}

\* C20: in a returned result, a field's origin tag is null exactly when its
\* value is null, and a tag that is not null names the tier that returned
\* the value, also when a tier raised an exception.
C20_TagIffValue ==
  pc = "done" =>
    \A f \in FieldSet :
      /\ result[f \o "_pattern"] = Null <=> result[f] = Null
      /\ result[f] = Null => Producers(f) = {}
      /\ result[f] # Null =>
           /\ Cardinality(Producers(f)) = 1
           /\ \A i \in Producers(f) : tried[i].tier = TagTier(result[f \o "_pattern"])

\* A returned result with a null field, a field from the table tier and a
\* field from the global tier, after a tier raised an exception.
C20_Witness ==
  /\ pc = "done"
  /\ faults = 1
  /\ \E i \in DOMAIN tried : tried[i].tier = "block" /\ ~ tried[i].got
                             /\ result[tried[i].field] = Null
                             /\ Cardinality({j \in DOMAIN tried : tried[j].field = tried[i].field}) = 2
                             /\ "Block error" \notin Range(debug_log)
  /\ \E f \in FieldSet : TagTier(result[f \o "_pattern"]) = "table"
  /\ \E f \in FieldSet : TagTier(result[f \o "_pattern"]) = "global"

====
